---- MODULE Spec2Model ----
(***************************************************************************)
(* Change detection of louise-zy/youtubemonitor.                           *)
(*                                                                         *)
(* Two programs share the repository.  youtube_rss_monitor.py checks a     *)
(* list of YouTube channels: one run of main() is one check cycle, the     *)
(* sqlite store survives between runs.  blogger_monitor.py checks a list   *)
(* of web pages by content hash: run_check() is one cycle, the blogger     *)
(* list lives in memory and is mirrored into sqlite.  A behaviour of this  *)
(* module is a run of one of the two programs (variable prog).             *)
(*                                                                         *)
(* The sqlite store is taken to answer every call; feed fetches, page      *)
(* fetches and the processing of one video may fail.                       *)
(***************************************************************************)
EXTENDS Integers, Sequences, FiniteSets, TLC

VARIABLES
    prog,                 \* which program runs: "youtube" or "blogger"
    now,                  \* datetime.now() of the running cycle, as the cycle's number
    config_channels,      \* config['channels'], in order
    idx,                  \* position of check_updates' loop over config['channels']
    videos,               \* table youtube_videos: video_id -> row, or NoRow
    channels,             \* table youtube_channels: channel -> row, or NoRow
    feed,                 \* what parse_rss_feed returned for the channel just visited
    selected,             \* what get_videos_to_process_for_channel returned for it
    new_videos,           \* check_updates' local new_videos of the channel just visited
    visited,              \* what happened to the channel just visited
    bidx,                 \* position of check_all_updates' loop over self.bloggers
    bloggers,             \* self.bloggers: the BloggerInfo objects in memory
    db_bloggers,          \* table bloggers, by url
    db_updates,           \* table updates
    updates,              \* check_all_updates' local updates
    current_hash,         \* current_hash of the blogger just visited
    fp,                   \* two page extractions and the hashes computed for them
    tx,                   \* one call of TranscriptExtractor.extract_transcript
    sm,                   \* one video in the summary step of check_updates
    cy,                   \* the loops of one check cycle and the failures in them
    nt                    \* one call of DingTalkNotifier.send_message

vars == << prog, now, config_channels, idx, videos, channels, feed, selected,
           new_videos, visited, bidx, bloggers, db_bloggers, db_updates, updates,
           current_hash, fp, tx, sm, cy, nt >>

ytVars == << config_channels, idx, videos, channels, feed, selected,
             new_videos, visited >>

pageVars == << bidx, bloggers, db_bloggers, db_updates, updates, current_hash >>

\* the variables of the component runs (fingerprint, captions, summary, cycle)
partVars == << fp, tx, sm, cy, nt >>

\* the value of a component's variable in a behaviour that does not run it
Idle == [pc |-> "idle"]

(***************************************************************************)
(* Bounds of the model.                                                    *)
(***************************************************************************)
MaxCycles == 3      \* check cycles in one behaviour
MaxFeedLen == 3     \* entries in one parsed feed
max_videos_per_check == 2   \* config['max_videos_per_check'], 5 when not configured

NoRow == [none |-> TRUE]

(***************************************************************************)
(* published_at is text.  The code orders it as text (Python's sorted on   *)
(* the str key, sqlite's ORDER BY on a TEXT column) and compares it as a   *)
(* time (datetime.fromisoformat).  PublishedStrings lists the texts of the *)
(* model in code-point order: "" is what parse_rss_feed stores for an      *)
(* entry without <published>, the last one is a date in a format           *)
(* fromisoformat rejects, the others are what the feed origin emits.       *)
(***************************************************************************)
PublishedStrings ==
    << "",
       "2024-01-01T00:00:00+00:00",
       "2024-01-02T00:00:00+00:00",
       "2024-01-03T00:00:00+00:00",
       "Mon, 01 Jan 2024 00:00:00 GMT" >>

\* the rank of a text in code-point order (str.__lt__, sqlite BINARY collation)
StrRank(s) == CHOOSE i \in 1..Len(PublishedStrings) : PublishedStrings[i] = s

\* datetime.fromisoformat(s.replace('Z', '+00:00')) returns (does not raise)
IsIsoFormat(s) ==
    s \in { "2024-01-01T00:00:00+00:00", "2024-01-02T00:00:00+00:00",
            "2024-01-03T00:00:00+00:00" }

\* the instant fromisoformat returns, in days since 2023-12-31T00:00Z
FromIsoFormat(s) ==
    CASE s = "2024-01-01T00:00:00+00:00" -> 1
      [] s = "2024-01-02T00:00:00+00:00" -> 2
      [] s = "2024-01-03T00:00:00+00:00" -> 3

(***************************************************************************)
(* Configuration and feed contents.                                        *)
(***************************************************************************)
\* the configurations tried: one channel with a varied feed, or two channels
Configs == { << "A" >>, << "B", "C" >> }

Channels == { "A", "B", "C", "D" }

\* channels A and B are configured with channel_id, channel C with channel_url only
HasChannelId(c) == c # "C"

VideoInfo(id, pub) == [video_id |-> id, published_at |-> pub]

\* the entries the feed of a channel may hold; a video belongs to one channel
FeedEntries(c) ==
    IF c = "A"
    THEN { VideoInfo("a1", "2024-01-01T00:00:00+00:00"),
           VideoInfo("a2", "2024-01-02T00:00:00+00:00"),
           VideoInfo("a3", "2024-01-02T00:00:00+00:00"),
           VideoInfo("a4", ""),
           VideoInfo("a5", ""),
           VideoInfo("a6", "Mon, 01 Jan 2024 00:00:00 GMT") }
    ELSE IF c = "B"
    THEN { VideoInfo("b1", "2024-01-01T00:00:00+00:00"),
           VideoInfo("b2", "2024-01-02T00:00:00+00:00"),
           VideoInfo("b3", "2024-01-03T00:00:00+00:00") }
    ELSE IF c = "C"
    THEN { VideoInfo("c1", "2024-01-02T00:00:00+00:00") }
    ELSE { VideoInfo("d1", "2024-01-01T00:00:00+00:00") }

VideoIds == { e.video_id : e \in UNION { FeedEntries(c) : c \in Channels } }

IsInjective(s) == \A i, j \in 1..Len(s) : s[i] = s[j] => i = j

\* the lists parse_rss_feed may return for a channel; << >> is also what it
\* returns when the request or the XML parse fails
Feeds(c) ==
    UNION { { s \in [1..n -> FeedEntries(c)] : IsInjective(s) } : n \in 0..MaxFeedLen }

(***************************************************************************)
(* YouTubeDatabaseManager.                                                 *)
(***************************************************************************)
Persisted(c) == { id \in VideoIds : videos[id] # NoRow /\ videos[id].channel_name = c }

video_exists(video_id) == videos[video_id] # NoRow

is_channel_first_run(channel_name) ==
    IF Persisted(channel_name) # {}
    THEN FALSE
    ELSE IF channels[channel_name] = NoRow
         THEN TRUE
         ELSE channels[channel_name].last_video_id = ""

\* the published_at of the row ORDER BY published_at DESC LIMIT 1 yields;
\* only asked when the channel has rows
get_latest_video_published_at_for_channel(channel_name) ==
    LET rows == { videos[id].published_at : id \in Persisted(channel_name) }
    IN  CHOOSE s \in rows : \A t \in rows : StrRank(t) <= StrRank(s)

\* INSERT OR REPLACE on a table whose UNIQUE column is published_at: the row
\* replaces every row of the same published_at
save_video_unique_published_at(table, video, channel_name) ==
    [id \in DOMAIN table |->
        IF id = video.video_id
        THEN [published_at |-> video.published_at,
              channel_name |-> channel_name,
              processed_at |-> now]
        ELSE IF table[id] # NoRow /\ table[id].published_at = video.published_at
        THEN NoRow
        ELSE table[id]]

\* INSERT OR REPLACE on the UNIQUE video_id; processed_at DEFAULT CURRENT_TIMESTAMP
save_video(table, video, channel_name) ==
    [table EXCEPT ![video.video_id] =
        [published_at |-> video.published_at,
         channel_name |-> channel_name,
         processed_at |-> now]]

get_channel(c) ==
    IF channels[c] # NoRow
    THEN channels[c]
    ELSE [last_video_id |-> "", last_check |-> 0, last_update |-> 0]

(***************************************************************************)
(* YouTubeRSSMonitor: selection.                                           *)
(***************************************************************************)
Front(s) == SubSeq(s, 1, Len(s) - 1)

Last(s) == s[Len(s)]

\* insert e behind every element whose key is not smaller (s is descending)
InsertDesc(s, e) ==
    LET p == Cardinality({ j \in 1..Len(s) :
                           StrRank(s[j].published_at) >= StrRank(e.published_at) })
    IN  SubSeq(s, 1, p) \o << e >> \o SubSeq(s, p + 1, Len(s))

\* insert e behind every element whose key is not greater (s is ascending)
InsertAsc(s, e) ==
    LET p == Cardinality({ j \in 1..Len(s) :
                           StrRank(s[j].published_at) <= StrRank(e.published_at) })
    IN  SubSeq(s, 1, p) \o << e >> \o SubSeq(s, p + 1, Len(s))

RECURSIVE sorted_reverse(_)
\* sorted(videos, key=lambda v: v.published_at, reverse=True): stable
sorted_reverse(s) ==
    IF s = << >> THEN << >> ELSE InsertDesc(sorted_reverse(Front(s)), Last(s))

\* the final sort left out: the list stays newest first
sort_published_at_skipped(s) == s

RECURSIVE sort_published_at(_)
\* new_videos.sort(...): stable
sort_published_at(s) ==
    IF s = << >> THEN << >> ELSE InsertAsc(sort_published_at(Front(s)), Last(s))

\* is_new_video without the video_exists test
is_new_video_no_dedup(video, channel_name) ==
    IF is_channel_first_run(channel_name)
    THEN TRUE
    ELSE IF Persisted(channel_name) = {}
    THEN TRUE
    ELSE LET latest_video_published_at ==
                 get_latest_video_published_at_for_channel(channel_name)
         IN  IF latest_video_published_at = ""
             THEN TRUE
             ELSE IF IsIsoFormat(video.published_at)
                     /\ IsIsoFormat(latest_video_published_at)
                  THEN FromIsoFormat(video.published_at)
                         > FromIsoFormat(latest_video_published_at)
                  ELSE FALSE

is_new_video(video, channel_name) ==
    IF video_exists(video.video_id)
    THEN FALSE
    ELSE IF is_channel_first_run(channel_name)
    THEN TRUE
    ELSE IF Persisted(channel_name) = {}
    THEN TRUE       \* latest_video_published_at is None
    ELSE LET latest_video_published_at ==
                 get_latest_video_published_at_for_channel(channel_name)
         IN  IF latest_video_published_at = ""
             THEN TRUE
             ELSE IF IsIsoFormat(video.published_at)
                     /\ IsIsoFormat(latest_video_published_at)
                  THEN FromIsoFormat(video.published_at)
                         > FromIsoFormat(latest_video_published_at)
                  ELSE FALSE      \* fromisoformat raised

RECURSIVE take_new_videos(_, _, _)
\* the for loop over sorted_videos: stop at max_videos, keep the new ones
take_new_videos(sorted_videos, channel_name, acc) ==
    IF sorted_videos = << >> \/ Len(acc) >= max_videos_per_check
    THEN acc
    ELSE take_new_videos(Tail(sorted_videos), channel_name,
                         IF is_new_video(Head(sorted_videos), channel_name)
                         THEN Append(acc, Head(sorted_videos))
                         ELSE acc)

get_videos_to_process_for_channel(vs, channel_name) ==
    IF vs = << >>
    THEN << >>
    ELSE LET sorted_videos == sorted_reverse(vs)
         IN  IF is_channel_first_run(channel_name)
             THEN << sorted_videos[1] >>
             ELSE sort_published_at(take_new_videos(sorted_videos, channel_name, << >>))

(***************************************************************************)
(* YouTubeRSSMonitor.check_updates: one pass of the loop over the channels. *)
(***************************************************************************)
RECURSIVE save_all(_, _, _)
save_all(table, vs, channel_name) ==
    IF vs = << >>
    THEN table
    ELSE save_all(save_video(table, Head(vs), channel_name), Tail(vs), channel_name)

\* the videos of to_process whose processing did not raise, in order
Processed(to_process, raised) ==
    LET keep == { k \in 1..Len(to_process) : k \notin raised }
        F[k \in 0..Len(to_process)] ==
            IF k = 0 THEN << >>
            ELSE IF k \in keep THEN Append(F[k - 1], to_process[k]) ELSE F[k - 1]
    IN  F[Len(to_process)]

\* update_channel with last_check advanced only when a video was processed
update_channel_check_on_new(channel, done) ==
    [last_video_id |-> IF done # << >> THEN done[1].video_id ELSE channel.last_video_id,
     last_update |-> IF done # << >> THEN now ELSE channel.last_update,
     last_check |-> IF done # << >> THEN now ELSE channel.last_check]

\* update_channel with last_update advanced in every pass
update_channel_always(channel, done) ==
    [last_video_id |-> IF done # << >> THEN done[1].video_id ELSE channel.last_video_id,
     last_update |-> now,
     last_check |-> now]

\* lines 1190-1195: last_video_id and last_update move only with new videos
update_channel(channel, done) ==
    [last_video_id |-> IF done # << >> THEN done[1].video_id ELSE channel.last_video_id,
     last_update |-> IF done # << >> THEN now ELSE channel.last_update,
     last_check |-> now]

\* the channel is skipped: get_channel_id_from_url returned None
SkipChannel(c) ==
    /\ ~HasChannelId(c)
    /\ visited' = "no_channel_id"
    /\ feed' = << >>
    /\ selected' = << >>
    /\ new_videos' = << >>
    /\ UNCHANGED << videos, channels >>

\* EmptyFeed with the channel saved before `continue`
EmptyFeedSavesChannel(c) ==
    /\ visited' = "no_videos"
    /\ feed' = << >>
    /\ selected' = << >>
    /\ new_videos' = << >>
    /\ channels' = [channels EXCEPT ![c] = update_channel(get_channel(c), << >>)]
    /\ UNCHANGED videos

\* parse_rss_feed returned nothing: the pass ends at `continue`
EmptyFeed(c) ==
    /\ visited' = "no_videos"
    /\ feed' = << >>
    /\ selected' = << >>
    /\ new_videos' = << >>
    /\ UNCHANGED << videos, channels >>

\* parse_rss_feed returned vs; the videos numbered in raised fail in processing
ProcessFeed(c, vs, raised) ==
    LET channel == get_channel(c)
        videos_to_process == get_videos_to_process_for_channel(vs, c)
        done == Processed(videos_to_process, raised)
    IN  /\ visited' = "checked"
        /\ feed' = vs
        /\ selected' = videos_to_process
        /\ new_videos' = done
        /\ videos' = save_all(videos, done, c)
        /\ channels' = [channels EXCEPT ![c] = update_channel(channel, done)]

CheckChannel ==
    /\ prog = "youtube"
    /\ idx <= Len(config_channels)
    /\ LET c == config_channels[idx]
       IN  \/ SkipChannel(c)
           \/ EmptyFeed(c)
           \/ \E vs \in Feeds(c) \ { << >> } :
              \E raised \in SUBSET (1..Len(get_videos_to_process_for_channel(vs, c))) :
                  ProcessFeed(c, vs, raised)
    /\ idx' = idx + 1
    /\ UNCHANGED << prog, now, config_channels, pageVars, partVars >>

\* check_updates returned; the next run of main() starts the next cycle
NextRun ==
    /\ prog = "youtube"
    /\ idx = Len(config_channels) + 1
    /\ now < MaxCycles
    /\ now' = now + 1
    /\ idx' = 1
    /\ visited' = "none"
    /\ feed' = << >>
    /\ selected' = << >>
    /\ new_videos' = << >>
    /\ UNCHANGED << prog, config_channels, videos, channels, pageVars, partVars >>

(***************************************************************************)
(* blogger_monitor.py: ContentExtractor, DatabaseManager and               *)
(* BloggerMonitor.check_all_updates.                                       *)
(***************************************************************************)
\* self.bloggers, in order (the url of each)
BloggerList == << "P", "Q" >>

Bloggers == { BloggerList[i] : i \in 1..Len(BloggerList) }

\* hashlib.md5((title + content).encode()).hexdigest(): a digest of the
\* concatenation, never empty, taken to differ for different concatenations
md5_title_content(title, content) == "md5:" \o title \o content

\* the (title, content) pairs a page may show
Pages == { << "a", "bc" >>, << "ab", "c" >>, << "a", "c" >> }

\* what extract_content may return: the extractor's dict, or the dict of the
\* except branch, which has no 'hash'
ExtractResults ==
    { [title |-> p[1], content |-> p[2], hash |-> md5_title_content(p[1], p[2])] :
        p \in Pages }
    \cup { [title |-> "", content |-> "", error |-> "failed"] }

\* current_content.get('hash', '')
get_hash(current_content) ==
    IF "hash" \in DOMAIN current_content THEN current_content.hash ELSE ""

\* has_update without the test for an empty hash
has_update_any_difference(hash, last_hash) == hash # last_hash

\* line 547: current_hash != blogger.last_hash and current_hash
has_update(hash, last_hash) == hash # last_hash /\ hash # ""

\* INSERT OR REPLACE INTO bloggers; returns cursor.lastrowid
save_blogger(table, url, blogger, rowid) ==
    [table EXCEPT ![url] =
        [id |-> rowid,
         last_hash |-> blogger.last_hash,
         last_check |-> blogger.last_check,
         last_update |-> blogger.last_update]]

\* the AUTOINCREMENT id of the row the next save_blogger writes
NextRowId ==
    LET ids == { db_bloggers[u].id : u \in { v \in Bloggers : db_bloggers[v] # NoRow } }
    IN  IF ids = {} THEN 1 ELSE 1 + CHOOSE i \in ids : \A j \in ids : j <= i

\* one pass of the loop of check_all_updates, lines 540-584
CheckBlogger ==
    /\ prog = "blogger"
    /\ bidx <= Len(BloggerList)
    /\ \E current_content \in ExtractResults :
         LET url == BloggerList[bidx]
             hash == get_hash(current_content)
             blogger == bloggers[url]
             changed == [last_hash |-> hash, last_check |-> now, last_update |-> now]
             checked == [blogger EXCEPT !.last_check = now]
         IN  /\ current_hash' = hash
             /\ IF has_update(hash, blogger.last_hash)
                THEN /\ bloggers' = [bloggers EXCEPT ![url] = changed]
                     /\ db_bloggers' = save_blogger(db_bloggers, url, changed, NextRowId)
                     /\ db_updates' = db_updates \cup
                            { [blogger_id |-> NextRowId, content_hash |-> hash,
                               created_at |-> now] }
                     /\ updates' = Append(updates,
                            [url |-> url, title |-> current_content.title,
                             content |-> current_content.content, update_time |-> now])
                ELSE /\ bloggers' = [bloggers EXCEPT ![url] = checked]
                     /\ db_bloggers' = save_blogger(db_bloggers, url, checked, NextRowId)
                     /\ UNCHANGED << db_updates, updates >>
    /\ bidx' = bidx + 1
    /\ UNCHANGED << prog, now, ytVars, partVars >>

\* check_all_updates returned; schedule runs run_check again
NextRunCheck ==
    /\ prog = "blogger"
    /\ bidx = Len(BloggerList) + 1
    /\ now < MaxCycles
    /\ now' = now + 1
    /\ bidx' = 1
    /\ updates' = << >>
    /\ current_hash' = ""
    /\ UNCHANGED << prog, bloggers, db_bloggers, db_updates, ytVars, partVars >>

\* both stores empty, both loops at their first element
ProgramsAtStart ==
    /\ now = 1
    /\ idx = 1
    /\ videos = [id \in VideoIds |-> NoRow]
    /\ channels = [c \in Channels |-> NoRow]
    /\ feed = << >>
    /\ selected = << >>
    /\ new_videos = << >>
    /\ visited = "none"
    /\ bidx = 1
    /\ bloggers = [u \in Bloggers |-> [last_hash |-> "", last_check |-> 0, last_update |-> 0]]
    /\ db_bloggers = [u \in Bloggers |-> NoRow]
    /\ db_updates = {}
    /\ updates = << >>
    /\ current_hash = ""

Init ==
    /\ \/ prog = "youtube" /\ config_channels \in Configs
       \/ prog = "blogger" /\ config_channels = << >>
    /\ ProgramsAtStart
    /\ fp = Idle
    /\ tx = Idle
    /\ sm = Idle
    /\ cy = Idle
    /\ nt = Idle

Next ==
    \/ CheckChannel
    \/ NextRun
    \/ CheckBlogger
    \/ NextRunCheck

Spec == Init /\ [][Next]_vars

(***************************************************************************)
(* Vocabulary of the properties.  In an action formula the unprimed store  *)
(* is the store the pass over a channel starts from, and feed', selected'  *)
(* and new_videos' are what that pass parsed, selected and processed.      *)
(***************************************************************************)
\* the step about to be taken is the pass of check_updates over channel c
PassOver(c) ==
    /\ prog = "youtube"
    /\ idx <= Len(config_channels)
    /\ config_channels[idx] = c

\* the channel the last step passed over
JustVisited(c) ==
    /\ prog = "youtube"
    /\ visited # "none"
    /\ idx > 1
    /\ config_channels[idx - 1] = c

IdsOf(s) == { s[k].video_id : k \in 1..Len(s) }

\* the position of the entry with this id in a list without repeated ids
PosIn(s, id) == CHOOSE k \in 1..Len(s) : s[k].video_id = id

\* the times of the persisted entries of a channel that have one
PersistedTimes(c) ==
    { FromIsoFormat(videos[id].published_at) :
        id \in { i \in Persisted(c) : IsIsoFormat(videos[i].published_at) } }

\* the entry is unseen and strictly newer than every persisted time of c
Qualifies(e, c) ==
    /\ ~video_exists(e.video_id)
    /\ IsIsoFormat(e.published_at)
    /\ \A t \in PersistedTimes(c) : FromIsoFormat(e.published_at) > t

\* C1: in bootstrap state (no persisted entry of the source) a non-empty feed
\* yields exactly one selected entry, and no entry of the feed has a later
\* published time than it.
C1_BootstrapSelectsNewest ==
    [][\A c \in Channels :
         (PassOver(c) /\ Persisted(c) = {} /\ feed' # << >>)
         => /\ Len(selected') = 1
            /\ \A k \in 1..Len(feed') :
                 IsIsoFormat(feed'[k].published_at)
                 => /\ IsIsoFormat(selected'[1].published_at)
                    /\ FromIsoFormat(feed'[k].published_at)
                         <= FromIsoFormat(selected'[1].published_at)]_vars

\* C2: for a source with persisted entries, every selected entry is unseen and
\* its published_at is strictly greater than the latest persisted published_at
\* of the source: as a time when both are times, as text otherwise.
C2_SelectedStrictlyNewerAndUnseen ==
    [][\A c \in Channels :
         (PassOver(c) /\ Persisted(c) # {})
         => \A k \in 1..Len(selected') :
              LET e == selected'[k]
                  latest == get_latest_video_published_at_for_channel(c)
              IN  /\ ~video_exists(e.video_id)
                  /\ IF IsIsoFormat(e.published_at) /\ IsIsoFormat(latest)
                     THEN FromIsoFormat(e.published_at) > FromIsoFormat(latest)
                     ELSE StrRank(e.published_at) > StrRank(latest)]_vars

\* C3: an identifier that is persisted is never selected, processed or saved
\* again, and its row is never rewritten.
C3_PersistedNeverReprocessed ==
    [][\A id \in VideoIds :
         video_exists(id)
         => /\ videos'[id] = videos[id]
            /\ id \notin IdsOf(selected')
            /\ id \notin IdsOf(new_videos')]_vars

\* C3 witness: an entry persisted in an earlier cycle came back in the feed of
\* its channel and was left out of the selection.
C3_Witness ==
    \E c \in Channels :
        /\ JustVisited(c)
        /\ selected # << >>
        /\ \E k \in 1..Len(feed) :
             /\ videos[feed[k].video_id] # NoRow
             /\ videos[feed[k].video_id].processed_at < now
             /\ feed[k].video_id \notin IdsOf(selected)

\* C4: for a source with a last persisted time, every entry of the feed that is
\* unseen and strictly newer than it is selected when there are at most
\* max_videos_per_check of them, and no more than max_videos_per_check entries
\* are ever selected.
C4_SelectsEveryNewEntryUpToCap ==
    [][\A c \in Channels :
         (PassOver(c) /\ PersistedTimes(c) # {})
         => LET new == { k \in 1..Len(feed') : Qualifies(feed'[k], c) }
            IN  /\ Len(selected') <= max_videos_per_check
                /\ Cardinality(new) <= max_videos_per_check
                   => \A k \in new : feed'[k].video_id \in IdsOf(selected')]_vars

\* the entries of the feed that is_new_video takes as new
NewIn(vs, c) ==
    { e \in FeedEntries(c) : (\E k \in 1..Len(vs) : vs[k] = e) /\ is_new_video(e, c) }

\* C34: outside bootstrap, when more than max_videos_per_check entries of the
\* feed are new, max_videos_per_check of them are selected and no new entry
\* left out has a later published time than a selected one; and once a
\* selected entry is persisted, no entry left out is new any more, an entry
\* that is not new is not selected, and it stays not new.
C34_CapKeepsNewestDropsOlder ==
    [][\A c \in Channels :
         (PassOver(c) /\ Persisted(c) # {} /\ visited' = "checked")
         => /\ Cardinality(NewIn(feed', c)) > max_videos_per_check
               => /\ Len(selected') = max_videos_per_check
                  /\ \A e \in FeedEntries(c) :
                        (e \in NewIn(feed', c) /\ e.video_id \notin IdsOf(selected'))
                        => /\ \A j \in 1..Len(selected') :
                                IsIsoFormat(e.published_at)
                                => /\ IsIsoFormat(selected'[j].published_at)
                                   /\ FromIsoFormat(e.published_at)
                                        <= FromIsoFormat(selected'[j].published_at)
                           /\ new_videos' # << >> => ~(is_new_video(e, c))'
            /\ \A e \in FeedEntries(c) :
                  ~is_new_video(e, c)
                  => /\ e.video_id \notin IdsOf(selected')
                     /\ ~(is_new_video(e, c))']_vars

\* C35: a channel that has persisted entries keeps having them, and the
\* published_at that get_latest_video_published_at_for_channel returns for it
\* never goes down from one step to the next: not in the order of the store
\* (text), and not as a time when the old and the new value are times.
C35_LatestNeverDecreases ==
    [][\A c \in Channels :
         Persisted(c) # {}
         => /\ (Persisted(c) # {})'
            /\ StrRank((get_latest_video_published_at_for_channel(c))')
                 >= StrRank(get_latest_video_published_at_for_channel(c))
            /\ (IsIsoFormat(get_latest_video_published_at_for_channel(c))
                  /\ IsIsoFormat((get_latest_video_published_at_for_channel(c))'))
               => FromIsoFormat((get_latest_video_published_at_for_channel(c))')
                    >= FromIsoFormat(get_latest_video_published_at_for_channel(c))]_vars

\* the latest published_at of a channel went up in a later cycle
C35_Witness ==
    \E c \in Channels : \E i, j \in Persisted(c) :
        /\ JustVisited(c)
        /\ videos[i].processed_at < videos[j].processed_at
        /\ videos[j].processed_at = now
        /\ IsIsoFormat(videos[i].published_at)
        /\ IsIsoFormat(videos[j].published_at)
        /\ FromIsoFormat(videos[i].published_at) < FromIsoFormat(videos[j].published_at)
        /\ get_latest_video_published_at_for_channel(c) = videos[j].published_at

\* C36: after the pass over a channel in which new videos were persisted,
\* the channel's last_video_id is the id of one of them, and none of them
\* was published later than that one.  (Stated for channels whose persisted
\* entries all have a well-formed published_at.)
C36_LastVideoIdIsNewest ==
    \A c \in Channels :
        (JustVisited(c) /\ visited = "checked" /\ new_videos # << >>
           /\ \A id \in Persisted(c) : IsIsoFormat(videos[id].published_at))
        => /\ channels[c] # NoRow
           /\ channels[c].last_video_id \in IdsOf(new_videos)
           /\ \A k \in 1..Len(new_videos) :
                 FromIsoFormat(new_videos[k].published_at)
                   <= FromIsoFormat(videos[channels[c].last_video_id].published_at)

\* C5: the selected list is ascending by published time (oldest first), and
\* entries with the same published_at keep the order they had in the feed.
C5_SelectedAscendingStable ==
    \A i, j \in 1..Len(selected) :
        i < j
        => /\ (IsIsoFormat(selected[i].published_at) /\ IsIsoFormat(selected[j].published_at))
              => FromIsoFormat(selected[i].published_at)
                   <= FromIsoFormat(selected[j].published_at)
           /\ selected[i].published_at = selected[j].published_at
              => PosIn(feed, selected[i].video_id) < PosIn(feed, selected[j].video_id)

\* C5 witness: two entries published at the same time were selected together.
C5_Witness ==
    /\ Len(selected) = 2
    /\ IsIsoFormat(selected[1].published_at)
    /\ selected[1].published_at = selected[2].published_at

\* C6: an entry whose published_at does not parse is never selected, and a feed
\* entry that is unseen, parses and is newer than every persisted time of the
\* source is never left with an empty selection.
C6_UnparsableExcludedAndHarmless ==
    [][\A c \in Channels :
         PassOver(c)
         => /\ \A k \in 1..Len(selected') : IsIsoFormat(selected'[k].published_at)
            /\ (\E k \in 1..Len(feed') : Qualifies(feed'[k], c))
               => selected' # << >>]_vars

\* C7: a pass whose feed failed to parse or held no entry leaves the video rows
\* and the channel rows as they were, and the loop goes on to the next channel.
C7_FailedFeedLeavesStateUntouched ==
    [][\A c \in Channels :
         (PassOver(c) /\ feed' = << >>)
         => /\ videos' = videos
            /\ channels' = channels
            /\ idx' = idx + 1]_vars

\* C7 witness: the feed of a source that has a channel row and persisted
\* entries came back empty, and another source is still to be visited.
C7_Witness ==
    \E c \in Channels :
        /\ JustVisited(c)
        /\ visited = "no_videos"
        /\ channels[c] # NoRow
        /\ Persisted(c) # {}
        /\ idx <= Len(config_channels)

\* C8 as stated: when a cycle is over, the last_check of every configured
\* source is the time of that cycle.
C8_LastCheckAlwaysAdvances ==
    /\ (prog = "youtube" /\ idx = Len(config_channels) + 1)
       => \A k \in 1..Len(config_channels) :
            /\ channels[config_channels[k]] # NoRow
            /\ channels[config_channels[k]].last_check = now
    /\ (prog = "blogger" /\ bidx = Len(BloggerList) + 1)
       => \A u \in Bloggers : bloggers[u].last_check = now

\* C8 amended: the pass over a feed source whose feed held at least one entry
\* advances its last_check whatever happens to the entries; a pass whose feed
\* failed or was empty keeps the channel row; the pass over a page source
\* always advances its last_check, in memory and in the table.
C8_LastCheckAdvancesWhenFeedHasEntries ==
    [][/\ \A c \in Channels :
            PassOver(c)
            => IF feed' # << >>
               THEN /\ channels'[c] # NoRow
                    /\ channels'[c].last_check = now
                    /\ channels'[c].last_check > get_channel(c).last_check
               ELSE channels'[c] = channels[c]
       /\ \A u \in Bloggers :
            (prog = "blogger" /\ bidx <= Len(BloggerList) /\ BloggerList[bidx] = u)
            => /\ bloggers'[u].last_check = now
               /\ bloggers'[u].last_check > bloggers[u].last_check
               /\ db_bloggers'[u].last_check = now]_vars

\* C8 witness: every selected video failed in processing, and the channel's
\* last_check is the time of this cycle all the same.
C8_Witness ==
    \E c \in Channels :
        /\ JustVisited(c)
        /\ visited = "checked"
        /\ selected # << >>
        /\ new_videos = << >>
        /\ now > 1
        /\ channels[c].last_check = now

\* the row get_channel would build from a table
ChannelOf(table, c) ==
    IF table[c] # NoRow
    THEN table[c]
    ELSE [last_video_id |-> "", last_check |-> 0, last_update |-> 0]

\* C9: last_update and last_video_id of a channel change only in the pass over
\* that channel, and only when a video of it was processed and saved; last_hash
\* and last_update of a blogger change only in the pass over that blogger, and
\* only when an update with that hash was saved and reported.
C9_UpdateFieldsMoveOnlyWithNewItem ==
    [][/\ \A c \in Channels :
            (\/ ChannelOf(channels', c).last_update # ChannelOf(channels, c).last_update
             \/ ChannelOf(channels', c).last_video_id # ChannelOf(channels, c).last_video_id)
            => /\ PassOver(c)
               /\ new_videos' # << >>
               /\ \A k \in 1..Len(new_videos') :
                    /\ ~video_exists(new_videos'[k].video_id)
                    /\ videos'[new_videos'[k].video_id] # NoRow
       /\ \A u \in Bloggers :
            (\/ bloggers'[u].last_hash # bloggers[u].last_hash
             \/ bloggers'[u].last_update # bloggers[u].last_update)
            => /\ prog = "blogger" /\ bidx <= Len(BloggerList) /\ BloggerList[bidx] = u
               /\ Len(updates') = Len(updates) + 1
               /\ updates'[Len(updates')].url = u
               /\ \E r \in db_updates' \ db_updates :
                    r.content_hash = bloggers'[u].last_hash]_vars

\* C9 witness: a channel that was updated in an earlier cycle was checked in
\* this one, selected videos, processed none, and kept its last_update.
C9_Witness ==
    \E c \in Channels :
        /\ JustVisited(c)
        /\ visited = "checked"
        /\ selected # << >>
        /\ new_videos = << >>
        /\ channels[c].last_video_id # ""
        /\ channels[c].last_update < now
        /\ channels[c].last_check = now

Titles == { "", "a", "ab" }

\* content_div.get_text().strip() of the pages tried
Contents == { "c", "bc", "b" }

InitFingerprint ==
    /\ prog = "fingerprint"
    /\ config_channels = << >>
    /\ ProgramsAtStart
    /\ fp \in [pc : { "first" }, page1 : Titles \X Contents, page2 : Titles \X Contents,
                hash1 : { "" }, hash1_again : { "" }, hash2 : { "" }]
    /\ tx = Idle
    /\ sm = Idle
    /\ cy = Idle
    /\ nt = Idle

\* the extractor runs twice on the first page
HashFirstPage ==
    /\ prog = "fingerprint"
    /\ fp.pc = "first"
    /\ fp' = [fp EXCEPT !.pc = "second",
                        !.hash1 = md5_title_content(fp.page1[1], fp.page1[2]),
                        !.hash1_again = md5_title_content(fp.page1[1], fp.page1[2])]
    /\ UNCHANGED << prog, now, ytVars, pageVars, tx, sm, cy, nt >>

\* the extractor runs on the second page
HashSecondPage ==
    /\ prog = "fingerprint"
    /\ fp.pc = "second"
    /\ fp' = [fp EXCEPT !.pc = "done",
                        !.hash2 = md5_title_content(fp.page2[1], fp.page2[2])]
    /\ UNCHANGED << prog, now, ytVars, pageVars, tx, sm, cy, nt >>

NextFingerprint ==
    \/ HashFirstPage
    \/ HashSecondPage

SpecFingerprint == InitFingerprint /\ [][NextFingerprint]_vars

\* C11: the hash of a (title, content) pair is the same on a repeated call, and
\* two pairs that differ in the title or in the content have different hashes.
C11_FingerprintStableAndInjective ==
    fp.pc = "done" =>
        /\ fp.hash1 = fp.hash1_again
        /\ fp.page1 # fp.page2 => fp.hash1 # fp.hash2

(***************************************************************************)
(* youtube_rss_monitor.py with a store that may fail.  save_video catches  *)
(* every exception of sqlite and logs it, so its caller goes on as if the  *)
(* row had been written.  A behaviour of SpecStore is a run of the program *)
(* over two channels in which any save_video may fail this way.            *)
(***************************************************************************)
ConfigStore == << "B", "D" >>

\* the elements of vs at the positions outside drop, in order
Without(vs, drop) ==
    LET F[k \in 0..Len(vs)] ==
            IF k = 0 THEN << >>
            ELSE IF k \in drop THEN F[k - 1] ELSE Append(F[k - 1], vs[k])
    IN  F[Len(vs)]

InitStore ==
    /\ prog = "youtube_store"
    /\ config_channels = ConfigStore
    /\ ProgramsAtStart
    /\ fp = Idle
    /\ tx = Idle
    /\ sm = Idle
    /\ cy = Idle
    /\ nt = Idle

\* ProcessFeed, with save_video failing for the processed videos numbered in lost
ProcessFeedStore(c, vs, raised, lost) ==
    LET channel == get_channel(c)
        videos_to_process == get_videos_to_process_for_channel(vs, c)
        done == Processed(videos_to_process, raised)
    IN  /\ visited' = "checked"
        /\ feed' = vs
        /\ selected' = videos_to_process
        /\ new_videos' = done
        /\ videos' = save_all(videos, Without(done, lost), c)
        /\ channels' = [channels EXCEPT ![c] = update_channel(channel, done)]

CheckChannelStore ==
    /\ prog = "youtube_store"
    /\ idx <= Len(config_channels)
    /\ LET c == config_channels[idx]
       IN  \/ EmptyFeed(c)
           \/ \E vs \in Feeds(c) \ { << >> } :
              LET n == Len(get_videos_to_process_for_channel(vs, c))
              IN  \E raised \in SUBSET (1..n) :
                  \E lost \in SUBSET (1..(n - Cardinality(raised))) :
                      ProcessFeedStore(c, vs, raised, lost)
    /\ idx' = idx + 1
    /\ UNCHANGED << prog, now, config_channels, pageVars, partVars >>

NextRunStore ==
    /\ prog = "youtube_store"
    /\ idx = Len(config_channels) + 1
    /\ now < MaxCycles
    /\ now' = now + 1
    /\ idx' = 1
    /\ visited' = "none"
    /\ feed' = << >>
    /\ selected' = << >>
    /\ new_videos' = << >>
    /\ UNCHANGED << prog, config_channels, videos, channels, pageVars, partVars >>

NextStore ==
    \/ CheckChannelStore
    \/ NextRunStore

SpecStore == InitStore /\ [][NextStore]_vars

\* C12: a channel is treated as bootstrap (is_channel_first_run) exactly when
\* no entry of that channel is persisted, whatever is persisted for the other
\* channels.
C12_BootstrapIffNoPersistedEntry ==
    \A c \in Channels : is_channel_first_run(c) <=> Persisted(c) = {}

\* C30: a channel for which a store operation failed is left for this cycle:
\* none of its entries is returned as new.  A save_video that failed shows in
\* an entry of new_videos that has no row, so every entry returned as new has
\* its row.
C30_StoreFailureAbortsSource ==
    \A k \in 1..Len(new_videos) : videos[new_videos[k].video_id] # NoRow

(***************************************************************************)
(* check_all_updates with a store that can fail.  DatabaseManager catches  *)
(* nothing: an sqlite3 error in save_blogger or save_update leaves the     *)
(* try block of the loop body at that statement (line 583).                *)
(***************************************************************************)
\* the statement of the loop body that raises
StoreFailures == { "none", "save_blogger", "save_update" }

InitPageStore ==
    /\ prog = "page_store"
    /\ config_channels = << >>
    /\ ProgramsAtStart
    /\ fp = Idle
    /\ tx = Idle
    /\ sm = Idle
    /\ cy = Idle
    /\ nt = Idle

\* one pass of the loop of check_all_updates, lines 540-584, with the
\* statement that raises
CheckBloggerStore ==
    /\ prog = "page_store"
    /\ bidx <= Len(BloggerList)
    /\ \E current_content \in ExtractResults, raises \in StoreFailures :
         LET url == BloggerList[bidx]
             hash == get_hash(current_content)
             blogger == bloggers[url]
             changed == [last_hash |-> hash, last_check |-> now, last_update |-> now]
             checked == [blogger EXCEPT !.last_check = now]
         IN  /\ current_hash' = hash
             /\ IF has_update(hash, blogger.last_hash)
                THEN /\ bloggers' = [bloggers EXCEPT ![url] = changed]
                     /\ db_bloggers' = IF raises = "save_blogger"
                                       THEN db_bloggers
                                       ELSE save_blogger(db_bloggers, url, changed, NextRowId)
                     /\ db_updates' = IF raises = "none"
                                      THEN db_updates \cup
                                             { [blogger_id |-> NextRowId,
                                                content_hash |-> hash,
                                                created_at |-> now] }
                                      ELSE db_updates
                     /\ updates' = IF raises = "none"
                                   THEN Append(updates,
                                          [url |-> url, title |-> current_content.title,
                                           content |-> current_content.content,
                                           update_time |-> now])
                                   ELSE updates
                ELSE /\ bloggers' = [bloggers EXCEPT ![url] = checked]
                     /\ db_bloggers' = IF raises = "save_blogger"
                                       THEN db_bloggers
                                       ELSE save_blogger(db_bloggers, url, checked, NextRowId)
                     /\ UNCHANGED << db_updates, updates >>
    /\ bidx' = bidx + 1
    /\ UNCHANGED << prog, now, ytVars, partVars >>

NextRunCheckStore ==
    /\ prog = "page_store"
    /\ bidx = Len(BloggerList) + 1
    /\ now < MaxCycles
    /\ now' = now + 1
    /\ bidx' = 1
    /\ updates' = << >>
    /\ current_hash' = ""
    /\ UNCHANGED << prog, bloggers, db_bloggers, db_updates, ytVars, partVars >>

NextPageStore ==
    \/ CheckBloggerStore
    \/ NextRunCheckStore

SpecPageStore == InitPageStore /\ [][NextPageStore]_vars

\* C39: the hash recorded for a page, in self.bloggers and in the table
\* bloggers, takes a new value only in a pass that stores an update record
\* with this hash and appends the update of the page to the result: when
\* save_blogger or save_update fails the recorded hash stays, so the change
\* is found again in the next cycle.
C39_HashAdvancesOnlyWithUpdate ==
    [][\A u \in Bloggers :
         (prog = "page_store" /\ bidx <= Len(BloggerList) /\ BloggerList[bidx] = u
            /\ \/ bloggers'[u].last_hash # bloggers[u].last_hash
               \/ db_bloggers'[u] # NoRow
                  /\ db_bloggers'[u].last_hash # bloggers[u].last_hash)
         => /\ Len(updates') = Len(updates) + 1
            /\ updates'[Len(updates')].url = u
            /\ \E r \in db_updates' :
                  /\ r.content_hash = bloggers'[u].last_hash
                  /\ r.created_at = now]_vars

(***************************************************************************)
(* TranscriptExtractor of youtube_rss_monitor.py: language tags.           *)
(* A tag is the sequence of its subtags in lower case: "en-us" is          *)
(* << "en", "us" >>.  A behaviour of SpecChooseLanguage chooses the track  *)
(* language for one group of tracks and one configured language list.      *)
(***************************************************************************)
zh_variants == << << "zh" >>, << "zh", "hans" >>, << "zh", "hant" >>,
                  << "zh", "cn" >>, << "zh", "tw" >> >>

en_variants == << << "en" >>, << "en", "us" >>, << "en", "uk" >> >>

\* the tag is not among the elements of the list
NotIn(tag, list) == \A k \in 1..Len(list) : list[k] # tag

RECURSIVE Dedup(_, _)
\* the loop that drops repeated tags and keeps the order
Dedup(list, result) ==
    IF list = << >> THEN result
    ELSE Dedup(Tail(list),
               IF NotIn(Head(list), result) THEN Append(result, Head(list)) ELSE result)

RECURSIVE Expanded(_)
Expanded(base) ==
    IF base = << >> THEN << >>
    ELSE (IF Head(base)[1] = "zh" THEN zh_variants
          ELSE IF Head(base)[1] = "en" THEN en_variants
          ELSE << Head(base) >>) \o Expanded(Tail(base))

_expand_langs(languages) == Dedup(Expanded(languages), << >>)

\* no language chosen (None)
NoLang == << >>

\* the first element of list that satisfies Test, or NoLang
FirstThat(list, Test(_)) ==
    IF \E k \in 1..Len(list) : Test(list[k])
    THEN list[CHOOSE k \in 1..Len(list) :
                  Test(list[k]) /\ \A j \in 1..(k - 1) : ~Test(list[j])]
    ELSE NoLang

\* _choose_language with the two loops in the other order
_choose_language_prefix_first(available, preferred) ==
    LET HasPrefix(q) == \E k \in 1..Len(available) : available[k][1] = q[1]
        q == FirstThat(preferred, HasPrefix)
        SamePrefix(a) == a[1] = q[1]
        IsAvailable(r) == ~NotIn(r, available)
    IN  IF q # NoLang
        THEN FirstThat(available, SamePrefix)
        ELSE FirstThat(preferred, IsAvailable)

_choose_language(available, preferred) ==
    LET IsAvailable(q) == ~NotIn(q, available)
        exact == FirstThat(preferred, IsAvailable)
        HasPrefix(q) == \E k \in 1..Len(available) : available[k][1] = q[1]
        p == FirstThat(preferred, HasPrefix)
        SamePrefix(a) == a[1] = p[1]
    IN  IF exact # NoLang
        THEN exact
        ELSE IF p # NoLang
        THEN FirstThat(available, SamePrefix)
        ELSE NoLang

\* lines 391-395 of _extract_from_tracks: the language of the track to download
chosen_lang(available, preferred) ==
    LET chosen == _choose_language(available, preferred)
    IN  IF chosen # NoLang
        THEN chosen
        ELSE IF available # << >> THEN available[1] ELSE NoLang

\* the tags a group of tracks may carry
TrackTags == { << "en" >>, << "en", "gb" >>, << "en", "us" >>, << "zh", "hk" >>,
               << "fr" >>, << "de" >> }

\* the keys of one group of tracks, in the order of the dict
TagLists == UNION { { l \in [1..n -> TrackTags] : IsInjective(l) } : n \in 0..2 }

\* values of the configured list of languages
LanguageConfigs == { << << "zh" >>, << "en" >> >>,
                     << << "en" >> >>,
                     << << "fr" >>, << "en", "gb" >> >>,
                     << << "de" >>, << "fr" >> >> }

InitChooseLanguage ==
    /\ prog = "choose_language"
    /\ config_channels = << >>
    /\ ProgramsAtStart
    /\ fp = Idle
    /\ tx \in [pc : { "choose" }, available : TagLists, languages : LanguageConfigs,
               preferred_langs : { << >> }, chosen : { NoLang }]
    /\ sm = Idle
    /\ cy = Idle
    /\ nt = Idle

ChooseLanguage ==
    /\ prog = "choose_language"
    /\ tx.pc = "choose"
    /\ LET preferred_langs == _expand_langs(tx.languages)
       IN  tx' = [tx EXCEPT !.pc = "chosen",
                            !.preferred_langs = preferred_langs,
                            !.chosen = chosen_lang(tx.available, preferred_langs)]
    /\ UNCHANGED << prog, now, ytVars, pageVars, fp, sm, cy, nt >>

NextChooseLanguage == ChooseLanguage

SpecChooseLanguage == InitChooseLanguage /\ [][NextChooseLanguage]_vars

\* the preferred tags that are the tag of an available track
ExactMatches == { k \in 1..Len(tx.preferred_langs) : ~NotIn(tx.preferred_langs[k], tx.available) }

\* the preferred tags whose primary subtag is that of an available track
PrefixMatches ==
    { k \in 1..Len(tx.preferred_langs) :
        \E j \in 1..Len(tx.available) : tx.available[j][1] = tx.preferred_langs[k][1] }

\* C16: the language chosen in a group is the first preferred tag that is the
\* tag of an available track; without such a tag, the first available track
\* that shares the primary subtag of the first preferred tag that has such a
\* track; without that, the first available track.  An exact match of a later
\* preferred tag is chosen although an earlier one has a prefix match.
C16_LanguageChoice ==
    tx.pc = "chosen" =>
        IF ExactMatches # {}
        THEN \E k \in ExactMatches :
                /\ \A j \in ExactMatches : k <= j
                /\ tx.chosen = tx.preferred_langs[k]
        ELSE IF PrefixMatches # {}
        THEN \E k \in PrefixMatches : \E i \in 1..Len(tx.available) :
                /\ \A j \in PrefixMatches : k <= j
                /\ tx.available[i][1] = tx.preferred_langs[k][1]
                /\ \A j \in 1..(i - 1) : tx.available[j][1] # tx.preferred_langs[k][1]
                /\ tx.chosen = tx.available[i]
        ELSE IF tx.available # << >>
        THEN tx.chosen = tx.available[1]
        ELSE tx.chosen = NoLang

\* an exact match of a later preferred tag was chosen over a track that only
\* shares the primary subtag of an earlier preferred tag
C16_Witness ==
    /\ tx.pc = "chosen"
    /\ \E k \in ExactMatches : \E j \in PrefixMatches :
          /\ j < k
          /\ j \notin ExactMatches
          /\ tx.preferred_langs[j][1] # tx.preferred_langs[k][1]
          /\ tx.chosen = tx.preferred_langs[k]

(***************************************************************************)
(* TranscriptExtractor of youtube_rss_monitor.py: caption payloads.        *)
(* A payload is the sequence of its lines; a line carries what the code    *)
(* tests of it (k) and its text (s).  A cleaned text is the sequence of    *)
(* the texts that " ".join puts together; << >> is the empty string.       *)
(***************************************************************************)
max_retries == 2    \* config 'max_retries', 2 when not configured

Line(k, s) == [k |-> k, s |-> s]

\* a WebVTT file with one cue whose text names the locator it came from
Captions(url) ==
    << Line("webvtt", "WEBVTT"),
       Line("blank", ""),
       Line("cue", "00:00:01.000 --> 00:00:02.000"),
       Line("text", "captions of " \o url) >>

\* a WebVTT file without cues
HeaderOnly == << Line("webvtt", "WEBVTT") >>

\* the page the origin answers an automated client with (status 200)
HtmlPage ==
    << Line("html", "<html><body>"),
       Line("text", "Sign in to confirm you are not a bot") >>

\* a segment playlist with one segment
Playlist(url) ==
    << Line("m3u", "#EXTM3U"),
       Line("directive", "#EXTINF:10,"),
       Line("uri", url \o "/seg1") >>

Texts(lines, dropped) ==
    LET F[k \in 0..Len(lines)] ==
            IF k = 0 THEN << >>
            ELSE IF lines[k].k \in dropped THEN F[k - 1] ELSE Append(F[k - 1], lines[k].s)
    IN  F[Len(lines)]

_parse_vtt_to_text(vtt) == Texts(vtt, { "blank", "webvtt", "note", "cue", "index" })

_parse_srt_to_text(srt) == Texts(srt, { "blank", "cue", "index" })

\* the first line that is not blank, or a blank line
FirstLine(lines) ==
    IF \E k \in 1..Len(lines) : lines[k].k # "blank"
    THEN lines[CHOOSE k \in 1..Len(lines) :
                   lines[k].k # "blank" /\ \A j \in 1..(k - 1) : lines[j].k = "blank"]
    ELSE Line("blank", "")

_normalize_subtitle_text(text, ext) ==
    IF FirstLine(text).k = "webvtt" \/ ext = "vtt"
    THEN _parse_vtt_to_text(text)
    ELSE IF ext = "srt"
    THEN _parse_srt_to_text(text)
    ELSE _parse_vtt_to_text(text)

\* line 420: the text starts with "<!DOCTYPE html" or contains "<html"
looks_like_html(text) == \E k \in 1..Len(text) : text[k].k = "html"

\* line 429: the text starts with "#EXTM3U"
is_m3u(text) == FirstLine(text).k = "m3u"

\* the url without its range parameter
_strip_range_param(url) ==
    IF url = "auto/en.vtt?range=0-99" THEN "auto/en.vtt" ELSE url

\* an answer of the origin to session.get; ok = FALSE is an exception of the
\* request or of raise_for_status; segs are the answers to the requests of the
\* segments of a playlist
Response(ok, body, segs) == [ok |-> ok, body |-> body, segs |-> segs]

Failed == Response(FALSE, << >>, << >>)

Responses(url) ==
    IF url = "auto/en.vtt"
    THEN { Failed,
           Response(TRUE, HtmlPage, << >>),
           Response(TRUE, Captions(url), << >>),
           Response(TRUE, Playlist(url), << Response(TRUE, Captions(url \o "/seg1"), << >>) >>),
           Response(TRUE, Playlist(url), << Response(TRUE, HtmlPage, << >>) >>),
           Response(TRUE, Playlist(url), << Failed >>) }
    ELSE { Failed,
           Response(TRUE, HtmlPage, << >>),
           Response(TRUE, Captions(url), << >>),
           Response(TRUE, HeaderOnly, << >>) }

\* an entry of the log of requests
Event(op, url, resp) == [op |-> op, url |-> url, resp |-> resp]

Sleep == Event("sleep", "", "")

\* the uri lines of a playlist, in order
SegmentUrls(m3u_text) == Texts(m3u_text, { "blank", "m3u", "directive" })

\* _merge_m3u_playlist: the lines of the segments that answered, each without
\* its WEBVTT header line, and the requests made
_merge_m3u_playlist(m3u_text, segs) ==
    LET urls == SegmentUrls(m3u_text)
        Body(k) == IF segs[k].body # << >> /\ segs[k].body[1].k = "webvtt"
                   THEN Tail(segs[k].body) ELSE segs[k].body
        F[k \in 0..Len(urls)] ==
            IF k = 0 THEN << >>
            ELSE IF segs[k].ok THEN F[k - 1] \o Body(k) ELSE F[k - 1]
        G[k \in 0..Len(urls)] ==
            IF k = 0 THEN << >>
            ELSE Append(G[k - 1],
                        Event("get_segment", urls[k], IF segs[k].ok THEN "ok" ELSE "failed"))
    IN  [text |-> F[Len(urls)], log |-> G[Len(urls)]]

\* no wait between the attempts
SleepNever(attempt) == << >>

\* lines 425-426 and 438-439: wait unless this was the last attempt
SleepBeforeRetry(attempt) ==
    IF attempt + 1 < max_retries THEN << Sleep >> ELSE << >>

RECURSIVE download_attempts(_, _, _)
\* the loop of _download_subtitle_file from attempt on; rs[k] is the answer
\* the origin gives to the k-th request
download_attempts(cleaned_url, rs, attempt) ==
    IF attempt >= max_retries
    THEN [text |-> << >>, log |-> << >>]
    ELSE LET r == rs[attempt + 1]
             rest == download_attempts(cleaned_url, rs, attempt + 1)
         IN  IF ~r.ok
             THEN [text |-> rest.text,
                   log |-> << Event("get", cleaned_url, "failed") >>
                           \o SleepBeforeRetry(attempt) \o rest.log]
             ELSE IF looks_like_html(r.body)
             THEN [text |-> rest.text,
                   log |-> << Event("get", cleaned_url, "html") >>
                           \o SleepBeforeRetry(attempt) \o rest.log]
             ELSE IF is_m3u(r.body)
             THEN LET merged == _merge_m3u_playlist(r.body, r.segs)
                  IN  [text |-> IF merged.text # << >> THEN merged.text ELSE r.body,
                       log |-> << Event("get", cleaned_url, "ok") >> \o merged.log]
             ELSE [text |-> r.body, log |-> << Event("get", cleaned_url, "ok") >>]

_download_subtitle_file(url, rs) ==
    IF url = ""
    THEN [text |-> << >>, log |-> << >>]
    ELSE download_attempts(_strip_range_param(url), rs, 0)

(***************************************************************************)
(* Tracks.  A group of tracks (info['subtitles'], info['automatic_         *)
(* captions']) is the sequence of its (language, formats) items in the     *)
(* order of the dict.                                                      *)
(***************************************************************************)
Format(ext, url) == [ext |-> ext, url |-> url]

NoFormat == Format("", "")

Track(lang, formats) == [lang |-> lang, formats |-> formats]

ManualGroups ==
    { << >>,
      << Track(<< "en" >>, << Format("vtt", "manual/en.vtt") >>) >>,
      << Track(<< "fr" >>, << Format("srt", "manual/fr.srt") >>),
         Track(<< "en" >>, << Format("json3", "manual/en.json3"),
                              Format("vtt", "manual/en.vtt") >>) >> }

AutoGroups ==
    { << >>,
      << Track(<< "en" >>, << Format("vtt", "auto/en.vtt?range=0-99") >>) >> }

\* what extract_info may return for a video
Infos == [subtitles : ManualGroups, automatic_captions : AutoGroups]

Keys(tracks) == [k \in 1..Len(tracks) |-> tracks[k].lang]

\* tracks.get(chosen_lang, [])
FormatsOf(tracks, lang) ==
    IF \E k \in 1..Len(tracks) : tracks[k].lang = lang
    THEN tracks[CHOOSE k \in 1..Len(tracks) : tracks[k].lang = lang].formats
    ELSE << >>

_select_format(formats) ==
    LET First(Test(_)) ==
            IF \E k \in 1..Len(formats) : Test(formats[k])
            THEN formats[CHOOSE k \in 1..Len(formats) :
                             Test(formats[k]) /\ \A j \in 1..(k - 1) : ~Test(formats[j])]
            ELSE NoFormat
        IsVtt(f) == f.ext = "vtt" /\ f.url # ""
        IsSrt(f) == f.ext = "srt" /\ f.url # ""
        HasUrl(f) == f.url # ""
    IN  IF First(IsVtt) # NoFormat THEN First(IsVtt)
        ELSE IF First(IsSrt) # NoFormat THEN First(IsSrt)
        ELSE First(HasUrl)

\* the format _extract_from_tracks downloads for a group, or NoFormat
chosen_fmt(tracks, preferred_langs) ==
    IF tracks = << >>
    THEN NoFormat
    ELSE _select_format(FormatsOf(tracks, chosen_lang(Keys(tracks), preferred_langs)))

_extract_from_tracks(tracks, preferred_langs, rs) ==
    LET fmt == chosen_fmt(tracks, preferred_langs)
        got == _download_subtitle_file(fmt.url, rs)
    IN  IF fmt = NoFormat
        THEN [text |-> << >>, log |-> << >>]
        ELSE IF got.text = << >>
        THEN [text |-> << >>, log |-> got.log]
        ELSE [text |-> _normalize_subtitle_text(got.text, fmt.ext), log |-> got.log]

\* the groups with the automatic captions first
tracks_sources_auto_first(info, prefer_manual, allow_auto) ==
    (IF info.automatic_captions # << >> /\ allow_auto THEN << "auto" >> ELSE << >>)
    \o (IF info.subtitles # << >> /\ prefer_manual THEN << "manual" >> ELSE << >>)

\* lines 335-344: the groups extract_transcript goes through, in order
tracks_sources(info, prefer_manual, allow_auto) ==
    LET preferred ==
            (IF info.subtitles # << >> /\ prefer_manual THEN << "manual" >> ELSE << >>)
            \o (IF info.automatic_captions # << >> /\ allow_auto THEN << "auto" >> ELSE << >>)
    IN  IF preferred # << >> THEN preferred
        ELSE IF info.subtitles # << >> THEN << "manual" >>
        ELSE IF info.automatic_captions # << >> THEN << "auto" >>
        ELSE << >>

GroupOf(info, name) == IF name = "manual" THEN info.subtitles ELSE info.automatic_captions

(***************************************************************************)
(* The fallback provider (youtube_transcript_api).                         *)
(***************************************************************************)
\* a transcript of the provider's list: its language code, whether it can be
\* translated, the text of fetch() in the search by language, the text of
\* translate(target).fetch(), the text of fetch() in the pass over all
\* transcripts (<< >>: the call raised or gave no text)
Transcript(lang, translatable, text, translation, again) ==
    [lang |-> lang, is_translatable |-> translatable, text |-> text,
     translation |-> translation, again |-> again]

\* what the provider does for a video: whether list() returns, and the
\* transcripts of the list in its order
ApiOutcome(list_ok, transcripts) == [list_ok |-> list_ok, transcripts |-> transcripts]

ApiOutcomes ==
    { ApiOutcome(FALSE, << >>),
      ApiOutcome(TRUE, << >>),
      ApiOutcome(TRUE, << Transcript(<< "en" >>, TRUE, << "transcript en" >>,
                                     << "translated en" >>, << "transcript en" >>) >>),
      ApiOutcome(TRUE, << Transcript(<< "de" >>, TRUE, << "transcript de" >>,
                                     << "translated de" >>, << "transcript de" >>) >>),
      ApiOutcome(TRUE, << Transcript(<< "de" >>, FALSE, << "transcript de" >>, << >>,
                                     << "transcript de" >>),
                          Transcript(<< "en" >>, TRUE, << >>, << >>, << "transcript en" >>) >>),
      ApiOutcome(TRUE, << Transcript(<< "fr" >>, TRUE, << >>, << >>, << >>),
                          Transcript(<< "de" >>, TRUE, << >>, << "translated de" >>,
                                     << "transcript de" >>) >>),
      ApiOutcome(TRUE, << Transcript(<< "zh" >>, TRUE, << >>, << >>, << >>),
                          Transcript(<< "en" >>, FALSE, << >>, << >>, << >>) >>) }

\* a request to the provider and the text it ended with
ApiEvent(op, lang, text) ==
    [op |-> op, url |-> "", resp |-> IF text # << >> THEN "ok" ELSE "failed",
     lang |-> lang, text |-> text]

\* transcript_list.find_transcript([lang]): the position of the transcript, or 0
find_transcript(transcripts, lang) ==
    IF \E k \in 1..Len(transcripts) : transcripts[k].lang = lang
    THEN CHOOSE k \in 1..Len(transcripts) :
            /\ transcripts[k].lang = lang
            /\ \A j \in 1..(k - 1) : transcripts[j].lang # lang
    ELSE 0

\* the loop over search_languages (lines 571-586), were it never left
ByLanguage(transcripts, search_languages) ==
    [k \in 1..Len(search_languages) |->
        LET at == find_transcript(transcripts, search_languages[k])
        IN  ApiEvent("find", search_languages[k],
                     IF at = 0 THEN << >> ELSE transcripts[at].text)]

\* the loop of the translations (lines 589-605), were it never left
ByTranslation(transcripts, target_lang) ==
    IF target_lang = ""
    THEN << >>
    ELSE LET able == SelectSeq(transcripts, LAMBDA t : t.is_translatable)
         IN  [k \in 1..Len(able) |-> ApiEvent("translate", able[k].lang, able[k].translation)]

\* the loop over every transcript (lines 607-619), were it never left
AnyTranscript(transcripts) ==
    [k \in 1..Len(transcripts) |->
        ApiEvent("fetch", transcripts[k].lang, transcripts[k].again)]

\* `if text: return text`: the requests up to the first that ended with text
RECURSIVE UntilText(_)
UntilText(events) ==
    IF events = << >> THEN << >>
    ELSE IF Head(events).text # << >> THEN << Head(events) >>
    ELSE << Head(events) >> \o UntilText(Tail(events))

\* the three loops with the pass over all transcripts first
StagesAnyFirst(transcripts, search_languages, target_lang) ==
    AnyTranscript(transcripts)
        \o ByLanguage(transcripts, search_languages)
        \o ByTranslation(transcripts, target_lang)

\* the order of the three loops of _fallback_transcript_api
Stages(transcripts, search_languages, target_lang) ==
    ByLanguage(transcripts, search_languages)
        \o ByTranslation(transcripts, target_lang)
        \o AnyTranscript(transcripts)

\* _fallback_transcript_api with the exception of list() not caught
_fallback_transcript_api_uncaught(usable, search_languages, target_lang, out) ==
    IF ~usable
    THEN [text |-> << >>, raised |-> FALSE, log |-> << >>]
    ELSE IF ~out.list_ok
    THEN [text |-> << >>, raised |-> TRUE, log |-> << Event("list", "", "failed") >>]
    ELSE LET done == UntilText(Stages(out.transcripts, search_languages, target_lang))
         IN  [text |-> IF done = << >> THEN << >> ELSE done[Len(done)].text,
              raised |-> FALSE,
              log |-> << Event("list", "", "ok") >> \o done]

\* usable: use_transcript_api and YT_TRANSCRIPT_API_AVAILABLE
_fallback_transcript_api(usable, search_languages, target_lang, out) ==
    IF ~usable
    THEN [text |-> << >>, raised |-> FALSE, log |-> << >>]
    ELSE IF ~out.list_ok
    THEN [text |-> << >>, raised |-> FALSE, log |-> << Event("list", "", "failed") >>]
    ELSE LET done == UntilText(Stages(out.transcripts, search_languages, target_lang))
         IN  [text |-> IF done = << >> THEN << >> ELSE done[Len(done)].text,
              raised |-> FALSE,
              log |-> << Event("list", "", "ok") >> \o done]

(***************************************************************************)
(* One video in the subtitle step of check_updates (lines 1148-1170): the  *)
(* call of extract_transcript and, when it returned no text, the second    *)
(* call.  A behaviour of SpecCaptions is that step for one video, one      *)
(* configuration and one set of tracks; the origin and the providers       *)
(* answer each request as they please.                                     *)
(***************************************************************************)
\* self.subtitle_config.get('languages', ['zh', 'en']), expanded
preferred_langs == _expand_langs(<< << "zh" >>, << "en" >> >>)

\* the configurations tried: (prefer_manual_subtitles, allow_automatic_subtitles,
\* transcript_api_auto_translate_to)
CaptionConfigs ==
    { << TRUE, TRUE, "" >>, << TRUE, TRUE, "zh" >>, << FALSE, TRUE, "" >>,
      << TRUE, FALSE, "" >>, << FALSE, FALSE, "" >> }

InitCaptions ==
    /\ prog = "captions"
    /\ config_channels = << >>
    /\ ProgramsAtStart
    /\ fp = Idle
    /\ sm = Idle
    /\ cy = Idle
    /\ nt = Idle
    /\ \E yt_dlp \in BOOLEAN, api \in BOOLEAN, cfg \in CaptionConfigs, info \in Infos :
          /\ (yt_dlp /\ api) \/ cfg = << TRUE, TRUE, "" >>
          /\ tx = [pc |-> "start",
                   yt_dlp |-> yt_dlp,            \* YT_DLP_AVAILABLE
                   api |-> api,                  \* fallback provider importable and enabled
                   prefer_manual |-> cfg[1],
                   allow_auto |-> cfg[2],
                   target_lang |-> cfg[3],
                   info |-> info,                \* the tracks the video has
                   call |-> 1,                   \* which call of extract_transcript
                   metadata |-> "none",          \* how _fetch_metadata_with_yt_dlp ended
                   sources |-> << >>,            \* tracks_sources still to go through
                   tried |-> << >>,              \* the groups gone through, with their text
                   fallback |-> "none",          \* how _fallback_transcript_api ended
                   out |-> ApiOutcome(FALSE, << >>),  \* what the provider held at that call
                   log |-> << >>,                \* the requests of this call, in order
                   blocked |-> {},               \* locators answered with HTML in call 1
                   transcript |-> << >>]         \* video.transcript

\* line 1149: the step is skipped without yt_dlp
StartExtraction ==
    /\ prog = "captions"
    /\ tx.pc = "start"
    /\ tx' = [tx EXCEPT !.pc = IF tx.yt_dlp THEN "metadata" ELSE "done"]
    /\ UNCHANGED << prog, now, ytVars, pageVars, fp, sm, cy, nt >>

\* the log of _fetch_metadata_with_yt_dlp when its first `fails` attempts raise
MetadataLog(fails) ==
    LET F[k \in 0..max_retries] ==
            IF k = 0 THEN << >>
            ELSE IF k <= fails
            THEN F[k - 1] \o << Event("extract_info", "", "failed") >> \o SleepBeforeRetry(k - 1)
            ELSE IF k = fails + 1
            THEN F[k - 1] \o << Event("extract_info", "", "ok") >>
            ELSE F[k - 1]
    IN  F[max_retries]

\* lines 330-346
FetchMetadata ==
    /\ prog = "captions"
    /\ tx.pc = "metadata"
    /\ \E fails \in 0..max_retries :
          tx' = [tx EXCEPT
                   !.pc = "tracks",
                   !.metadata = IF fails < max_retries THEN "ok" ELSE "failed",
                   !.sources = IF fails < max_retries
                               THEN tracks_sources(tx.info, tx.prefer_manual, tx.allow_auto)
                               ELSE << >>,
                   !.log = tx.log \o MetadataLog(fails)]
    /\ UNCHANGED << prog, now, ytVars, pageVars, fp, sm, cy, nt >>

\* lines 348-352: one round of the loop over tracks_sources
ExtractFromTracks ==
    /\ prog = "captions"
    /\ tx.pc = "tracks"
    /\ tx.sources # << >>
    /\ LET name == Head(tx.sources)
           tracks == GroupOf(tx.info, name)
           url == _strip_range_param(chosen_fmt(tracks, preferred_langs).url)
       IN  \E rs \in [1..max_retries -> Responses(url)] :
              LET got == _extract_from_tracks(tracks, preferred_langs, rs)
              IN  tx' = [tx EXCEPT
                           !.pc = IF got.text # << >> THEN "returned" ELSE "tracks",
                           !.sources = Tail(tx.sources),
                           !.tried = Append(tx.tried, [group |-> name, text |-> got.text]),
                           !.log = tx.log \o got.log,
                           !.transcript = got.text]
    /\ UNCHANGED << prog, now, ytVars, pageVars, fp, sm, cy, nt >>

\* lines 354-355
FallbackTranscriptApi ==
    /\ prog = "captions"
    /\ tx.pc = "tracks"
    /\ tx.sources = << >>
    /\ \E out \in ApiOutcomes :
          LET got == _fallback_transcript_api(tx.api, preferred_langs, tx.target_lang, out)
          IN  tx' = [tx EXCEPT
                       !.pc = IF got.raised THEN "raised" ELSE "returned",
                       !.fallback = IF ~tx.api THEN "unavailable"
                                    ELSE IF got.text # << >> THEN "ok" ELSE "failed",
                       !.out = out,
                       !.log = tx.log \o got.log,
                       !.transcript = got.text]
    /\ UNCHANGED << prog, now, ytVars, pageVars, fp, sm, cy, nt >>

\* the locators of the log that were answered with an HTML page
HtmlAnswered(log) ==
    { log[k].url : k \in { j \in 1..Len(log) : log[j].op = "get" /\ log[j].resp = "html" } }

\* lines 1160-1168: no text after the first call, so a second call is made
RetryExtraction ==
    /\ prog = "captions"
    /\ tx.pc = "returned"
    /\ tx.call = 1
    /\ tx.transcript = << >>
    /\ tx' = [tx EXCEPT !.pc = "metadata",
                        !.call = 2,
                        !.metadata = "none",
                        !.tried = << >>,
                        !.fallback = "none",
                        !.out = ApiOutcome(FALSE, << >>),
                        !.log = << >>,
                        !.blocked = HtmlAnswered(tx.log)]
    /\ UNCHANGED << prog, now, ytVars, pageVars, fp, sm, cy, nt >>

\* video.transcript keeps what the last call returned
FinishExtraction ==
    /\ prog = "captions"
    /\ tx.pc = "returned"
    /\ (tx.call = 2 \/ tx.transcript # << >>)
    /\ tx' = [tx EXCEPT !.pc = "done"]
    /\ UNCHANGED << prog, now, ytVars, pageVars, fp, sm, cy, nt >>

NextCaptions ==
    \/ StartExtraction
    \/ FetchMetadata
    \/ ExtractFromTracks
    \/ FallbackTranscriptApi
    \/ RetryExtraction
    \/ FinishExtraction

SpecCaptions == InitCaptions /\ [][NextCaptions]_vars

\* the positions of the log at which the locator was requested
GetsOf(url) == { k \in 1..Len(tx.log) : tx.log[k].op = "get" /\ tx.log[k].url = url }

\* the locators requested in the log
Requested == { tx.log[k].url : k \in { j \in 1..Len(tx.log) : tx.log[j].op = "get" } }

\* the positions of the log at which the metadata were asked for
MetadataRequests == { k \in 1..Len(tx.log) : tx.log[k].op = "extract_info" }

\* C13: extract_transcript never ends with an exception, and when the metadata
\* provider failed or every download failed, and the fallback provider failed
\* too, it returns the empty string.
C13_ExtractNeverRaises ==
    /\ tx.pc # "raised"
    /\ ( /\ tx.pc = "returned"
         /\ tx.fallback \in { "failed", "unavailable" }
         /\ \A k \in 1..Len(tx.log) :
               tx.log[k].op \in { "get", "extract_info", "list" } => tx.log[k].resp # "ok" )
       => tx.transcript = << >>

\* every attempt at the metadata raised, list() of the fallback provider raised,
\* and the call returned the empty string
C13_Witness ==
    /\ tx.pc = "returned"
    /\ tx.metadata = "failed"
    /\ tx.api
    /\ tx.fallback = "failed"
    /\ \E k \in 1..Len(tx.log) : tx.log[k] = Event("list", "", "failed")
    /\ tx.transcript = << >>

\* C15: with prefer_manual_subtitles and allow_automatic_subtitles both on and
\* both groups present, the manual group is gone through first, the automatic
\* group only after the manual group gave no text, and a text of the manual
\* group is what the call returns.
C15_ManualBeforeAuto ==
    ( /\ tx.prefer_manual
      /\ tx.allow_auto
      /\ tx.metadata = "ok"
      /\ tx.info.subtitles # << >>
      /\ tx.info.automatic_captions # << >> )
    => /\ tx.tried # << >> => tx.tried[1].group = "manual"
       /\ \A k \in 1..Len(tx.tried) :
             tx.tried[k].group = "auto" => k = 2 /\ tx.tried[1].text = << >>
       /\ (tx.tried # << >> /\ tx.tried[1].text # << >>)
             => /\ Len(tx.tried) = 1
                /\ tx.pc \in { "returned", "done" }
                /\ tx.transcript = tx.tried[1].text

\* both groups have a track in a preferred language, both were to be tried, and
\* the text of the manual track was returned without a request for the other
C15_Witness ==
    /\ tx.pc = "done"
    /\ tx.prefer_manual
    /\ tx.allow_auto
    /\ chosen_lang(Keys(tx.info.subtitles), preferred_langs) = << "en" >>
    /\ chosen_lang(Keys(tx.info.automatic_captions), preferred_langs) = << "en" >>
    /\ tx.transcript = << "captions of manual/en.vtt" >>
    /\ "auto/en.vtt" \notin Requested

\* what C17 says of the requests of one call: at most max_retries requests per
\* locator and for the metadata, a wait between two consecutive requests of
\* the same thing, and no request of a locator after a usable answer
C17_Attempts ==
    /\ max_retries >= 1
    /\ Cardinality(MetadataRequests) <= max_retries
    /\ \A k \in MetadataRequests :
          (\E j \in MetadataRequests : j > k)
              => tx.log[k].resp = "failed" /\ tx.log[k + 1] = Sleep
    /\ \A url \in Requested :
          /\ Cardinality(GetsOf(url)) <= max_retries
          /\ \A k \in GetsOf(url) :
                (\E j \in GetsOf(url) : j > k)
                    => /\ tx.log[k].resp # "ok"
                       /\ tx.log[k + 1] = Sleep
                       /\ k + 2 \in GetsOf(url)

\* an upper bound of the number of steps the subtitle step still takes
StepsLeft ==
    IF tx.pc = "done"
    THEN 0
    ELSE (IF tx.call = 1 THEN 7 ELSE 0)
         + (CASE tx.pc = "start" -> 7
              [] tx.pc = "metadata" -> 6
              [] tx.pc = "tracks" -> 3 + Len(tx.sources)
              [] tx.pc = "returned" -> 2
              [] OTHER -> 1)

\* C17: a locator is requested at most max_retries (>= 1) times, with a wait
\* before each further request and none after a usable answer; and the
\* subtitle step ends after finitely many requests: each of its steps makes
\* boundedly many requests and lowers a bound of the steps still to come.
C17_BoundedRetries ==
    [][C17_Attempts' /\ StepsLeft' < StepsLeft /\ StepsLeft' >= 0]_vars

\* a locator was requested twice with a wait in between, the second answer was
\* usable and the step ended
C17_Witness ==
    /\ tx.pc = "done"
    /\ \E url \in Requested : \E k \in GetsOf(url) :
          /\ tx.log[k].resp = "failed"
          /\ tx.log[k + 1] = Sleep
          /\ k + 2 \in GetsOf(url)
          /\ tx.log[k + 2].resp = "ok"

\* C18: no text of an HTML page answered by the origin is part of the returned
\* transcript.
C18_HtmlNeverReturned ==
    \A k \in 1..Len(tx.transcript) :
        \A i \in 1..Len(HtmlPage) : tx.transcript[k] # HtmlPage[i].s

\* C19: a locator that was answered with an HTML page is not requested again,
\* neither later in the same call nor in the second call for the same video.
C19_BlockedLocatorNotRequestedAgain ==
    /\ \A k \in 1..Len(tx.log) :
          (tx.log[k].op = "get" /\ tx.log[k].resp = "html")
              => \A j \in GetsOf(tx.log[k].url) : j <= k
    /\ \A url \in Requested : url \notin tx.blocked

\* the locators of all formats of all tracks of the groups of tracks_sources
Locators ==
    LET names == tracks_sources(tx.info, tx.prefer_manual, tx.allow_auto)
        groups == { GroupOf(tx.info, names[k]) : k \in 1..Len(names) }
    IN  UNION { UNION { { _strip_range_param(g[t].formats[f].url) :
                            f \in 1..Len(g[t].formats) } :
                        t \in 1..Len(g) } :
                g \in groups } \ { "" }

\* C20: the step leaves a video without transcript only after the metadata
\* provider was asked, every format of every track of the groups on offer was
\* requested, and the fallback provider (when there is one) was asked.
C20_EmptyOnlyAfterEverything ==
    (tx.pc = "done" /\ tx.transcript = << >>)
    => /\ tx.metadata # "none"
       /\ tx.metadata = "ok" => \A url \in Locators : url \in Requested
       /\ tx.api => tx.fallback # "none"

\* the requests of the log that went to the fallback provider's transcripts
ApiLog == SelectSeq(tx.log, LAMBDA e : e.op \in { "find", "translate", "fetch" })

\* the requests of the given kind among them
ApiLogOf(op) == SelectSeq(ApiLog, LAMBDA e : e.op = op)

\* the place of a kind of request in the order of the fallback's stages
StageOf(op) == IF op = "find" THEN 1 ELSE IF op = "translate" THEN 2 ELSE 3

\* the transcripts of the provider's list that can be translated
Translatable == SelectSeq(tx.out.transcripts, LAMBDA t : t.is_translatable)

\* C21: the fallback provider is asked only after every group of tracks gave
\* no text; it searches by the preferred languages in their order, then (only
\* with a target language) translates the translatable transcripts, then
\* fetches every transcript; the first request that ends with text is the
\* last one and its text is the result; the result is empty only after all
\* requests of all stages were made and gave nothing.
C21_FallbackOrder ==
    tx.fallback \notin { "none", "unavailable" }
    => /\ tx.sources = << >>
       /\ \A k \in 1..Len(tx.tried) : tx.tried[k].text = << >>
       /\ \A i \in 1..Len(tx.log), j \in 1..Len(tx.log) :
             (tx.log[i].op \in { "get", "get_segment", "extract_info" }
              /\ tx.log[j].op \in { "list", "find", "translate", "fetch" }) => i < j
       /\ \A i \in 1..Len(ApiLog), j \in 1..Len(ApiLog) :
             i < j => /\ StageOf(ApiLog[i].op) <= StageOf(ApiLog[j].op)
                      /\ ApiLog[i].text = << >>
       /\ \A k \in 1..Len(ApiLogOf("find")) :
             /\ k <= Len(preferred_langs)
             /\ ApiLogOf("find")[k].lang = preferred_langs[k]
       /\ \A k \in 1..Len(ApiLogOf("translate")) :
             /\ tx.target_lang # ""
             /\ k <= Len(Translatable)
             /\ ApiLogOf("translate")[k].lang = Translatable[k].lang
       /\ \A k \in 1..Len(ApiLogOf("fetch")) :
             /\ k <= Len(tx.out.transcripts)
             /\ ApiLogOf("fetch")[k].lang = tx.out.transcripts[k].lang
       /\ tx.transcript = IF ApiLog = << >> THEN << >> ELSE ApiLog[Len(ApiLog)].text
       /\ (tx.transcript = << >> /\ tx.out.list_ok)
          => /\ Len(ApiLogOf("find")) = Len(preferred_langs)
             /\ Len(ApiLogOf("translate"))
                   = (IF tx.target_lang # "" THEN Len(Translatable) ELSE 0)
             /\ Len(ApiLogOf("fetch")) = Len(tx.out.transcripts)

\* the search by language and the translation gave nothing, and the pass over
\* all transcripts found the text
C21_Witness ==
    /\ tx.pc = "done"
    /\ tx.target_lang # ""
    /\ ApiLogOf("find") # << >>
    /\ ApiLogOf("translate") # << >>
    /\ ApiLogOf("fetch") # << >>
    /\ tx.transcript # << >>
    /\ tx.transcript = ApiLog[Len(ApiLog)].text

\* the lines of a playlist that are not captions: its header, its directives
\* and the locators of its segments
PlaylistLines ==
    { "#EXTM3U", "#EXTINF:10," }
        \cup { tx.log[k].url : k \in { j \in 1..Len(tx.log) : tx.log[j].op = "get_segment" } }

\* C22: what a playlist hands on is made of the lines of its segments only:
\* no line of the playlist itself (header, directive, segment locator) is part
\* of the transcript, also when the segments could not be downloaded.
C22_PlaylistTextNeverReturned ==
    \A k \in 1..Len(tx.transcript) : tx.transcript[k] \notin PlaylistLines

\* C37: with allow_automatic_subtitles false, extract_transcript goes through
\* no group of automatic captions: it requests none of their locators and
\* returns none of their texts.
C37_AutoNeverUsedWhenDisallowed ==
    (prog = "captions" /\ ~tx.allow_auto)
    => /\ \A k \in 1..Len(tx.sources) : tx.sources[k] # "auto"
       /\ \A k \in 1..Len(tx.tried) : tx.tried[k].group # "auto"

\* ---------------------------------------------------------------------------
\* The summarizer (utils/ai.py) and the two places that call it.
\*
\* A text is known by its lengths: `lead` whitespace characters, then `body`
\* characters from the first to the last character that is not whitespace,
\* then `trail` whitespace characters.  A part of a text is the span
\* << from, to >> of the positions from..to-1 of the stripped text.
\* ---------------------------------------------------------------------------

Text(lead, body, trail) == [lead |-> lead, body |-> body, trail |-> trail]

\* len(text)
TextLen(text) == text.lead + text.body + text.trail

\* (content or "").strip(): the length of what is left
strip(text) == text.body

\* the texts handed to the summarizer
SummaryTexts ==
    { Text(lead, body, trail) :
        lead \in { 0, 1 }, body \in { 0, 3, 5001, 12000 }, trail \in { 0, 2 } }

\* ai_options, read in __init__: enable_chunking, chunk_char_limit,
\* chunk_overlap, max_chunks (at least 1)
Options(enable_chunking, chunk_char_limit, chunk_overlap, max_chunks) ==
    [enable_chunking |-> enable_chunking,
     chunk_char_limit |-> chunk_char_limit,
     chunk_overlap |-> chunk_overlap,
     max_chunks |-> IF max_chunks > 1 THEN max_chunks ELSE 1]

DefaultOptions == Options(TRUE, 5000, 400, 6)

\* the defaults; chunking disabled; a cap of 2 and of 1 chunks; a chunk size
\* below the floor with an overlap above it; a negative overlap
SummaryOptions ==
    { DefaultOptions, Options(FALSE, 5000, 400, 6), Options(TRUE, 5000, 400, 2),
      Options(TRUE, 5000, 400, 1), Options(TRUE, 10, 9000, 6),
      Options(TRUE, 5000, 0 - 5, 6) }

\* self.ai_processor is None without deepseek_api_key
NoProcessor == [present |-> FALSE]

\* an AIContentProcessor; client is FALSE when openai.OpenAI(...) raised
Processor(client, options) == [present |-> TRUE, client |-> client, options |-> options]

Processors ==
    { NoProcessor } \cup { Processor(c, o) : c \in BOOLEAN, o \in SummaryOptions }

Min(a, b) == IF a < b THEN a ELSE b

Max(a, b) == IF a > b THEN a ELSE b

\* the while loop without its test of the number of chunks
RECURSIVE split_loop_uncapped(_, _, _, _, _, _)
split_loop_uncapped(length, size, back, max_chunks, start, chunks) ==
    IF start < length
    THEN LET end == IF length < start + size THEN length ELSE start + size
             more == Append(chunks, << start, end >>)
         IN  IF end >= length
             THEN [start |-> start, chunks |-> more]
             ELSE split_loop_uncapped(length, size, back, max_chunks,
                                      IF end - back > 0 THEN end - back ELSE 0, more)
    ELSE [start |-> start, chunks |-> chunks]

\* the while loop of _split_into_chunks: the chunks, and `start` at its exit
RECURSIVE split_loop(_, _, _, _, _, _)
split_loop(length, chunk_size, overlap, max_chunks, start, chunks) ==
    IF start < length /\ Len(chunks) < max_chunks
    THEN LET end == Min(length, start + chunk_size)
             more == Append(chunks, << start, end >>)
         IN  IF end >= length
             THEN [start |-> start, chunks |-> more]
             ELSE split_loop(length, chunk_size, overlap, max_chunks,
                             Max(end - overlap, 0), more)
    ELSE [start |-> start, chunks |-> chunks]

\* line 133: chunk_size
chunk_size(options) == Max(1000, options.chunk_char_limit)

\* line 134 without its bounds: the overlap as configured
overlap_as_configured(options) == options.chunk_overlap

\* line 134: overlap
overlap(options) == Max(0, Min(options.chunk_overlap, chunk_size(options) \div 2))

\* _split_into_chunks(text), text of the given length
_split_into_chunks(length, options) ==
    IF length = 0
    THEN << << 0, 0 >> >>
    ELSE LET at == split_loop(length, chunk_size(options), overlap(options),
                              options.max_chunks, 0, << >>)
             chunks == IF at.start < length /\ Len(at.chunks) < options.max_chunks
                       THEN Append(at.chunks, << at.start, length >>)
                       ELSE at.chunks
         IN  IF chunks # << >> THEN chunks ELSE << << 0, length >> >>

\* what the model writes: the two section markers, words, and blanks
SummaryMark == "[summary]"

OutlineMark == "[outline]"

Replies ==
    { << SummaryMark, " ", "s", " ", OutlineMark, " ", "o" >>,
      << "s", " " >>,
      << OutlineMark, "o" >>,
      << SummaryMark, "s", OutlineMark, "o", OutlineMark, "p" >> }

RECURSIVE lstrip(_)
lstrip(toks) ==
    IF toks # << >> /\ Head(toks) = " " THEN lstrip(Tail(toks)) ELSE toks

RECURSIVE rstrip(_)
rstrip(toks) ==
    IF toks # << >> /\ toks[Len(toks)] = " "
    THEN rstrip(SubSeq(toks, 1, Len(toks) - 1))
    ELSE toks

\* str.strip() of what the model wrote
strip_tokens(toks) == rstrip(lstrip(toks))

\* content.split(mark): the pieces between the occurrences of the mark
RECURSIVE split(_, _)
split(toks, mark) ==
    LET at == { k \in 1..Len(toks) : toks[k] = mark }
    IN  IF at = {}
        THEN << toks >>
        ELSE LET k == CHOOSE j \in at : \A i \in at : j <= i
             IN  << SubSeq(toks, 1, k - 1) >> \o split(SubSeq(toks, k + 1, Len(toks)), mark)

\* piece.replace(mark, "")
remove(toks, mark) == SelectSeq(toks, LAMBDA t : t # mark)

Contains(toks, mark) == \E k \in 1..Len(toks) : toks[k] = mark

\* the outline of an answer without the two markers
Unstructured == << "no structured outline" >>

_parse_response(content) ==
    IF Contains(content, SummaryMark) /\ Contains(content, OutlineMark)
    THEN LET parts == split(content, OutlineMark)
         IN  [summary |-> strip_tokens(remove(parts[1], SummaryMark)),
              outline |-> IF Len(parts) > 1 THEN strip_tokens(parts[2]) ELSE << >>]
    ELSE [summary |-> strip_tokens(content), outline |-> Unstructured]

\* the answer of a processor whose client is missing
ClientMissing ==
    [summary |-> << "AI summary unavailable: client not initialised" >>,
     outline |-> << "AI outline unavailable: client not initialised" >>]

\* the answer to a text with nothing in it
NoContent ==
    [summary |-> << "no content available, no summary" >>,
     outline |-> << "no content available, no outline" >>]

\* the answer after a model call raised
Failure ==
    [summary |-> << "summary failed", "exc" >>,
     outline |-> << "outline failed", "exc" >>]

\* the request of _run_single_pass
SinglePass(chunk) == [kind |-> "single", span |-> chunk]

\* the k-th request of _summarize_chunks
ChunkPass(chunk, k, total) == [kind |-> "chunk", span |-> chunk, idx |-> k, total |-> total]

\* the request of _build_final_summary, from the summaries of the chunks 1..n
FinalPass(n) == [kind |-> "final", parts |-> [k \in 1..n |-> k]]

\* the text is blank: the guard of generate_summary_and_outline without its
\* test of the stripped text
never_blank(text) == FALSE

\* `not cleaned`
is_blank(text) == strip(text) = 0

\* what generate_summary_and_outline hands back: its answer, the requests it
\* sent, the model's answer it parsed (<< >>: none), the number of the
\* request that raised (0: none), and whether it raised itself
Outcome(result, requests, reply, failed) ==
    [result |-> result, requests |-> requests, reply |-> reply,
     failed |-> failed, raised |-> FALSE]

\* a model call raised and nothing caught it
ModelCallFailedUncaught(requests) ==
    [result |-> [summary |-> << >>, outline |-> << >>], requests |-> requests,
     reply |-> << >>, failed |-> Len(requests), raised |-> TRUE]

\* lines 66-71: the last of the requests raised
ModelCallFailed(requests) == Outcome(Failure, requests, << >>, Len(requests))

\* generate_summary_and_outline(title, content).  The call number fails_at
\* raises (0: none does); the model's answer to the last request is reply.
generate_summary_and_outline(processor, content, fails_at, reply) ==
    IF ~processor.client
    THEN Outcome(ClientMissing, << >>, << >>, 0)
    ELSE IF is_blank(content)
    THEN Outcome(NoContent, << >>, << >>, 0)
    ELSE LET options == processor.options
             chunks == _split_into_chunks(strip(content), options)
         IN  IF Len(chunks) = 1 \/ ~options.enable_chunking
             THEN IF fails_at = 1
                  THEN ModelCallFailed(<< SinglePass(chunks[1]) >>)
                  ELSE Outcome(_parse_response(reply), << SinglePass(chunks[1]) >>, reply, 0)
             ELSE LET total == Min(Len(chunks), options.max_chunks)
                      maps == [k \in 1..total |-> ChunkPass(chunks[k], k, total)]
                  IN  IF fails_at \in 1..total
                      THEN ModelCallFailed(SubSeq(maps, 1, fails_at))
                      ELSE IF fails_at = total + 1
                      THEN ModelCallFailed(Append(maps, FinalPass(total)))
                      ELSE Outcome(_parse_response(reply), Append(maps, FinalPass(total)),
                                   reply, 0)

\* VideoInfo.summary and VideoInfo.outline before the summarizer ran
NoSummary == [summary |-> << >>, outline |-> << >>]

InitSummary ==
    /\ prog = "summary"
    /\ config_channels = << >>
    /\ ProgramsAtStart
    /\ fp = Idle
    /\ tx = Idle
    /\ cy = Idle
    /\ nt = Idle
    /\ \E processor \in Processors, content \in SummaryTexts, yt_dlp \in BOOLEAN :
          sm = [pc |-> "entry",
                by |-> "none",               \* who summarized the entry
                ai_processor |-> processor,
                yt_dlp |-> yt_dlp,            \* YT_DLP_AVAILABLE
                content |-> content,          \* the text of the entry: the captions
                                              \* of the video, or the page's content
                requests |-> << >>,           \* the requests sent to the model
                reply |-> << >>,              \* the model's answer that was parsed
                failed |-> 0,                 \* the number of the request that raised
                result |-> NoSummary,
                saved |-> FALSE,              \* the entry was handed to the store
                returned |-> FALSE,           \* the entry is in the list of the new ones
                last_video_id |-> "before",   \* channel.last_video_id
                channel_saved |-> FALSE]      \* save_channel(channel) was called

\* the calls that may raise, and the model's last answer
Answers(processor) ==
    { << f, r >> : f \in 0..(processor.options.max_chunks + 1), r \in Replies }

\* sm after the summarizer handed back `got`
Summarized_by(who, got) ==
    [sm EXCEPT !.pc = IF got.raised THEN "raised" ELSE "done",
               !.by = who,
               !.requests = got.requests,
               !.reply = got.reply,
               !.failed = got.failed,
               !.result = got.result]

\* a call of generate_summary_and_outline with any text
Summarize ==
    /\ prog = "summary"
    /\ sm.pc = "entry"
    /\ sm.ai_processor.present
    /\ \E a \in Answers(sm.ai_processor) :
          sm' = Summarized_by("generate",
                    generate_summary_and_outline(sm.ai_processor, sm.content, a[1], a[2]))
    /\ UNCHANGED << prog, now, ytVars, pageVars, fp, tx, cy, nt >>

\* line 1173 without its test of self.ai_processor: None has no method
\* generate_summary_and_outline, the call raises AttributeError
summary_of_video_unguarded(processor, transcript, fails_at, reply) ==
    IF ~processor.present
    THEN [result |-> NoSummary, requests |-> << >>, reply |-> << >>,
          failed |-> 0, raised |-> TRUE]
    ELSE IF TextLen(transcript) > 0
    THEN generate_summary_and_outline(processor, transcript, fails_at, reply)
    ELSE Outcome(NoSummary, << >>, << >>, 0)

\* lines 1172-1178: the summary of a video; without a processor or without
\* a transcript the video keeps its empty summary and outline
summary_of_video(processor, transcript, fails_at, reply) ==
    IF processor.present /\ TextLen(transcript) > 0
    THEN generate_summary_and_outline(processor, transcript, fails_at, reply)
    ELSE Outcome(NoSummary, << >>, << >>, 0)

\* lines 1148-1170: video.transcript; without yt_dlp the extractor is not
\* called and the transcript stays ""
transcript_of_video(yt_dlp, extracted) ==
    IF yt_dlp THEN extracted ELSE Text(0, 0, 0)

\* check_updates, lines 1139-1198, for a source with one selected video:
\* its transcript ("" or a normalised text), its summary, then save_video
\* and new_videos.append; an exception leaves the video out (line 1186).
\* After the loop the channel takes the id of the first new video and is
\* saved.
SummarizeVideo ==
    /\ prog = "summary"
    /\ sm.pc = "entry"
    /\ sm.content.lead = 0 /\ sm.content.trail = 0
    /\ \E a \in Answers(IF sm.ai_processor.present THEN sm.ai_processor
                         ELSE Processor(FALSE, DefaultOptions)) :
          LET transcript == transcript_of_video(sm.yt_dlp, sm.content)
              got == summary_of_video(sm.ai_processor, transcript, a[1], a[2])
          IN  sm' = [Summarized_by("video", got) EXCEPT
                        !.content = transcript,
                        !.saved = ~got.raised,
                        !.returned = ~got.raised,
                        !.last_video_id = IF got.raised THEN @ ELSE "video",
                        !.channel_saved = TRUE]
    /\ UNCHANGED << prog, now, ytVars, pageVars, fp, tx, cy, nt >>

\* check_all_updates, lines 549-577: the changed page is saved, then
\* summarized, then appended to the updates; its content was stripped
SummarizePage ==
    /\ prog = "summary"
    /\ sm.pc = "entry"
    /\ sm.content.lead = 0 /\ sm.content.trail = 0
    /\ IF sm.ai_processor.present
       THEN \E a \in Answers(sm.ai_processor) :
               LET got == generate_summary_and_outline(sm.ai_processor, sm.content,
                                                       a[1], a[2])
               IN  sm' = [Summarized_by("page", got) EXCEPT
                             !.saved = TRUE, !.returned = ~got.raised]
       ELSE sm' = [sm EXCEPT !.pc = "done", !.by = "page",
                             !.saved = TRUE, !.returned = TRUE]
    /\ UNCHANGED << prog, now, ytVars, pageVars, fp, tx, cy, nt >>

NextSummary ==
    \/ Summarize
    \/ SummarizeVideo
    \/ SummarizePage

SpecSummary == InitSummary /\ [][NextSummary]_vars

\* C14: for a text that is empty or only whitespace the summarizer answers
\* with its fixed placeholder (the one of the missing client when it has no
\* client, the one of the missing content otherwise) and sends no request to
\* the model; a video whose transcript is empty is not handed to the
\* summarizer, keeps its empty summary and causes no request.
C14_BlankTextNoModelCall ==
    (sm.pc = "done" /\ strip(sm.content) = 0)
    => /\ sm.requests = << >>
       /\ sm.by = "generate"
          => sm.result = IF sm.ai_processor.client THEN NoContent ELSE ClientMissing
       /\ (sm.by = "video" /\ TextLen(sm.content) = 0) => sm.result = NoSummary

\* a text of whitespace only went through a summarizer that has a client
C14_Witness ==
    /\ sm.pc = "done"
    /\ sm.by = "generate"
    /\ sm.ai_processor.client
    /\ strip(sm.content) = 0
    /\ TextLen(sm.content) > 0
    /\ sm.result = NoContent

\* the summarizer was called with a text that has something in it, and it has
\* a client
Summarized ==
    /\ sm.pc = "done"
    /\ sm.by # "none"
    /\ sm.ai_processor.present
    /\ sm.ai_processor.client
    /\ strip(sm.content) > 0

\* the requests of the log of the given kind
RequestsOf(kind) == SelectSeq(sm.requests, LAMBDA q : q.kind = kind)

\* C23: a text no longer than chunk_char_limit, and any text when chunking is
\* disabled, is summarized with exactly one request, the single-pass one, and
\* without any request for a chunk.
C23_SinglePassWhenFits ==
    (/\ Summarized
     /\ \/ strip(sm.content) <= sm.ai_processor.options.chunk_char_limit
        \/ ~sm.ai_processor.options.enable_chunking)
    => /\ Len(sm.requests) = 1
       /\ sm.requests[1].kind = "single"

\* the summarizer took the map-reduce path and no model call failed
MapReduced ==
    /\ Summarized
    /\ RequestsOf("chunk") # << >>
    /\ sm.result # Failure

\* C24: 12000 characters with chunk_char_limit 5000 and chunk_overlap 400 are
\* summarized as 3 chunks; on the map-reduce path the requests are one per
\* chunk, the k-th labeled k/total with total the number of chunks, and then
\* one final request made of the summaries of all chunks.
C24_MapReduceRequests ==
    MapReduced
    => LET maps == RequestsOf("chunk")
           chunks == _split_into_chunks(strip(sm.content), sm.ai_processor.options)
       IN  /\ (strip(sm.content) = 12000 /\ sm.ai_processor.options = DefaultOptions)
                 => Len(maps) = 3
           /\ Len(maps) = Len(chunks)
           /\ Len(sm.requests) = Len(maps) + 1
           /\ \A k \in 1..Len(maps) :
                 /\ sm.requests[k] = maps[k]
                 /\ maps[k].idx = k
                 /\ maps[k].total = Len(maps)
                 /\ maps[k].span = chunks[k]
           /\ sm.requests[Len(sm.requests)] = FinalPass(Len(maps))

\* C25: the chunks of a text longer than the chunk size are the text again
\* once the overlap is taken off between neighbours: the first chunk starts
\* the text, each next chunk starts `overlap` before the end of the one before
\* it, and the last chunk ends the text (the tail after max_chunks chunks is
\* not dropped).
C25_ChunksReassemble ==
    (Summarized /\ strip(sm.content) > chunk_size(sm.ai_processor.options))
    => LET chunks == _split_into_chunks(strip(sm.content), sm.ai_processor.options)
       IN  /\ chunks[1][1] = 0
           /\ \A k \in 1..(Len(chunks) - 1) :
                 chunks[k + 1][1] = chunks[k][2] - overlap(sm.ai_processor.options)
           /\ chunks[Len(chunks)][2] = strip(sm.content)

\* C26: _split_into_chunks returns at most max_chunks + 1 chunks, and every
\* chunk sent to the model in the map phase is one of them.
C26_ChunkCountBounded ==
    Summarized
    => LET options == sm.ai_processor.options
           chunks == _split_into_chunks(strip(sm.content), options)
       IN  /\ Len(chunks) <= options.max_chunks + 1
           /\ \A k \in 1..Len(RequestsOf("chunk")) :
                 \E j \in 1..Len(chunks) : RequestsOf("chunk")[k].span = chunks[j]

\* a text that has more in it than max_chunks chunks hold went through the
\* map phase
C26_Witness ==
    /\ MapReduced
    /\ Len(RequestsOf("chunk")) = sm.ai_processor.options.max_chunks
    /\ RequestsOf("chunk")[Len(RequestsOf("chunk"))].span[2] < strip(sm.content)

\* the first position of the mark in what the model wrote
FirstAt(toks, mark) ==
    CHOOSE k \in 1..Len(toks) : toks[k] = mark /\ \A j \in 1..(k - 1) : toks[j] # mark

\* C27: of an answer with both markers, the summary is the trimmed text
\* between the summary marker and the outline marker, and the outline is all
\* the text after the outline marker, none of it lost; of an answer without
\* markers, the summary is the whole trimmed answer and the outline is the
\* fixed placeholder.
C27_ParseKeepsEverything ==
    (sm.pc = "done" /\ sm.reply # << >>)
    => IF Contains(sm.reply, SummaryMark) /\ Contains(sm.reply, OutlineMark)
       THEN LET su == FirstAt(sm.reply, SummaryMark)
                ou == FirstAt(sm.reply, OutlineMark)
            IN  /\ sm.result.summary = strip_tokens(SubSeq(sm.reply, su + 1, ou - 1))
                /\ sm.result.outline = strip_tokens(SubSeq(sm.reply, ou + 1, Len(sm.reply)))
       ELSE (~Contains(sm.reply, SummaryMark) /\ ~Contains(sm.reply, OutlineMark))
            => /\ sm.result.summary = strip_tokens(sm.reply)
               /\ sm.result.outline = Unstructured

\* C28: generate_summary_and_outline never raises; when a model call fails
\* (the single-pass one, one for a chunk, or the final one) no request follows
\* it and the answer is the failure summary; the pipeline then saves the
\* entry and returns it as new.
C28_SummaryFailureIsNotFatal ==
    /\ sm.pc # "raised"
    /\ sm.failed # 0 => (sm.result = Failure /\ Len(sm.requests) = sm.failed)
    /\ (sm.pc = "done" /\ sm.by \in { "video", "page" }) => (sm.saved /\ sm.returned)

\* a request for a chunk failed while a video was summarized
C28_Witness ==
    /\ sm.pc = "done"
    /\ sm.by = "video"
    /\ sm.failed = 2
    /\ sm.requests[2].kind = "chunk"
    /\ sm.result = Failure
    /\ sm.saved

\* C31: a video processed without a language-model key keeps its empty
\* summary, and one processed without the caption library keeps its empty
\* transcript and its empty summary; a processor whose client could not be
\* built answers with its placeholder.  In each case no request is sent to
\* the model, the video is handed to the store and appended to the new
\* videos, and the channel takes its id and is saved.
C31_DegradesAndContinues ==
    (sm.by = "video"
       /\ (~sm.ai_processor.present \/ ~sm.yt_dlp \/ ~sm.ai_processor.client))
    => /\ sm.pc = "done"
       /\ sm.requests = << >>
       /\ ~sm.yt_dlp => (TextLen(sm.content) = 0 /\ sm.result = NoSummary)
       /\ ~sm.ai_processor.present => sm.result = NoSummary
       /\ (sm.yt_dlp /\ sm.ai_processor.present /\ TextLen(sm.content) > 0)
          => sm.result = ClientMissing
       /\ sm.saved
       /\ sm.returned
       /\ sm.last_video_id = "video"
       /\ sm.channel_saved

\* a video with captions was processed without a language-model key
C31_Witness ==
    /\ sm.by = "video"
    /\ ~sm.ai_processor.present
    /\ sm.yt_dlp
    /\ TextLen(sm.content) > 0
    /\ sm.saved
    /\ sm.returned

\* the chunks the while loop of _split_into_chunks made of the text
LoopChunks ==
    split_loop(strip(sm.content), chunk_size(sm.ai_processor.options),
               overlap(sm.ai_processor.options), sm.ai_processor.options.max_chunks,
               0, << >>).chunks

\* the summarizer split a text
HasSplit ==
    /\ sm.pc = "done"
    /\ sm.by = "generate"
    /\ sm.requests # << >>

\* C32: whatever is configured, the overlap _split_into_chunks uses is at
\* least 0 and at most half the chunk size it uses, which is at least 1000:
\* each iteration of its loop starts strictly after the one before, and the
\* loop ends, at the latest when the start reaches the end of the text.
C32_OverlapBoundedStartAdvances ==
    HasSplit
    => LET options == sm.ai_processor.options
       IN  /\ chunk_size(options) >= 1000
           /\ overlap(options) >= 0
           /\ 2 * overlap(options) <= chunk_size(options)
           /\ \A k \in 1..(Len(LoopChunks) - 1) :
                  /\ LoopChunks[k][1] < LoopChunks[k + 1][1]
                  /\ LoopChunks[k + 1][1] < strip(sm.content)
           /\ Len(LoopChunks) <= strip(sm.content)

\* a text was split with a configured chunk size under the floor and a
\* configured overlap above the chunk size, in more than two iterations
C32_Witness ==
    /\ HasSplit
    /\ sm.ai_processor.options.chunk_char_limit < 1000
    /\ sm.ai_processor.options.chunk_overlap > chunk_size(sm.ai_processor.options)
    /\ Len(LoopChunks) > 2

\* C33: the chunks _split_into_chunks returns are different spans of the
\* text: none is longer than the chunk size, each starts strictly after the
\* start of the one before it and exactly `overlap` before its end, and no
\* span is there twice.
C33_ChunksDistinctSpans ==
    HasSplit
    => LET options == sm.ai_processor.options
           chunks == _split_into_chunks(strip(sm.content), options)
       IN  /\ \A k \in 1..Len(chunks) :
                  /\ 0 <= chunks[k][1]
                  /\ chunks[k][1] < chunks[k][2]
                  /\ chunks[k][2] <= strip(sm.content)
                  /\ chunks[k][2] - chunks[k][1] <= chunk_size(options)
           /\ \A k \in 1..(Len(chunks) - 1) :
                  /\ chunks[k][1] < chunks[k + 1][1]
                  /\ chunks[k + 1][1] = chunks[k][2] - overlap(options)
           /\ \A j, k \in 1..Len(chunks) : chunks[j] = chunks[k] => j = k

\* C38: with chunking disabled the summarizer sends one request, and the
\* request carries the text from its first to its last character, also when
\* the text is longer than the chunk size.
C38_WholeTextWhenChunkingDisabled ==
    (sm.pc = "done" /\ sm.requests # << >>
       /\ ~sm.ai_processor.options.enable_chunking)
    => /\ Len(sm.requests) = 1
       /\ sm.requests[1].kind = "single"
       /\ sm.requests[1].span = << 0, strip(sm.content) >>

\* ---------------------------------------------------------------------------
\* The loops of one check cycle: check_updates (over config['channels'], and
\* over videos_to_process within a channel) and check_all_updates (over
\* self.bloggers, one changed page at most within a blogger), with the
\* failures that can happen at each place.
\* ---------------------------------------------------------------------------

MaxSources == 3     \* the sources configured
MaxItems == 2       \* the entries selected for a source, at most

\* an exception that ends the loop it happened in
loop_left(k) == MaxSources + MaxItems + 1

\* `except Exception: continue` of the loop over the sources (lines
\* 1200-1202; blogger_monitor.py 582-583): the source to go on with
after_source_exception(i) == i + 1

\* `except Exception: continue` of the loop over the videos (lines 1186-1188):
\* the item to go on with
after_item_exception(j) == j + 1

InitCycle ==
    /\ prog = "cycle"
    /\ config_channels = << >>
    /\ ProgramsAtStart
    /\ fp = Idle
    /\ tx = Idle
    /\ sm = Idle
    /\ nt = Idle
    /\ \E side \in { "youtube", "blogger" } :
          cy = [pc |-> "loop",
                side |-> side,
                i |-> 1,                                  \* the source the loop is at
                j |-> 0,                                  \* the item the inner loop is at
                visited |-> {},                           \* the sources the loop entered
                itemsOf |-> [k \in 1..MaxSources |-> 0],  \* items selected per source
                handled |-> {},                           \* the items whose processing began
                returned |-> {},                          \* the items returned as new
                source_failed |-> {},                     \* the sources an exception ended
                item_failed |-> {}]                       \* the items an exception ended

\* the loop enters the next source (the `try:` of its body)
EnterSource ==
    /\ prog = "cycle"
    /\ cy.pc = "loop"
    /\ cy.i <= MaxSources
    /\ cy' = [cy EXCEPT !.pc = "source", !.visited = @ \cup { cy.i }]
    /\ UNCHANGED << prog, now, ytVars, pageVars, fp, tx, sm, nt >>

\* the source is left at a `continue` or at the end of its body without an
\* entry to process: not configured, no channel id, a feed that failed or is
\* empty (parse_rss_feed returns []), nothing new; a page that did not change
\* or could not be fetched (extract_content returns no hash)
NothingToProcess ==
    /\ prog = "cycle"
    /\ cy.pc = "source"
    /\ cy' = [cy EXCEPT !.pc = "loop", !.i = @ + 1]
    /\ UNCHANGED << prog, now, ytVars, pageVars, fp, tx, sm, nt >>

\* an exception before the entries are processed (an entry of the
\* configuration without a name, a resolver or parser that raises)
SourceRaises ==
    /\ prog = "cycle"
    /\ cy.pc = "source"
    /\ cy' = [cy EXCEPT !.pc = "loop",
                        !.i = after_source_exception(@),
                        !.source_failed = @ \cup { cy.i }]
    /\ UNCHANGED << prog, now, ytVars, pageVars, fp, tx, sm, nt >>

\* entries were selected: 1..max of a channel's feed, the one changed page of
\* a blogger
SelectItems ==
    /\ prog = "cycle"
    /\ cy.pc = "source"
    /\ \E n \in 1..(IF cy.side = "youtube" THEN MaxItems ELSE 1) :
          cy' = [cy EXCEPT !.pc = "items", !.j = 1, !.itemsOf[cy.i] = n]
    /\ UNCHANGED << prog, now, ytVars, pageVars, fp, tx, sm, nt >>

\* an entry is processed to its end: subtitles (possibly none), summary
\* (possibly a failure text), save, and it is appended to the new ones
ProcessItem ==
    /\ prog = "cycle"
    /\ cy.pc = "items"
    /\ cy.j <= cy.itemsOf[cy.i]
    /\ cy' = [cy EXCEPT !.j = @ + 1,
                        !.handled = @ \cup { << cy.i, cy.j >> },
                        !.returned = @ \cup { << cy.i, cy.j >> }]
    /\ UNCHANGED << prog, now, ytVars, pageVars, fp, tx, sm, nt >>

\* an exception while an entry is processed: check_updates catches it in the
\* loop over the videos; check_all_updates has one try block per blogger
ItemRaises ==
    /\ prog = "cycle"
    /\ cy.pc = "items"
    /\ cy.j <= cy.itemsOf[cy.i]
    /\ cy' = IF cy.side = "youtube"
             THEN [cy EXCEPT !.j = after_item_exception(@),
                             !.handled = @ \cup { << cy.i, cy.j >> },
                             !.item_failed = @ \cup { << cy.i, cy.j >> }]
             ELSE [cy EXCEPT !.pc = "loop",
                             !.i = after_source_exception(@),
                             !.handled = @ \cup { << cy.i, cy.j >> },
                             !.item_failed = @ \cup { << cy.i, cy.j >> }]
    /\ UNCHANGED << prog, now, ytVars, pageVars, fp, tx, sm, nt >>

\* the end of the source's body: save_channel, which logs and swallows the
\* failures of the store, and all_new_videos.extend
FinishSource ==
    /\ prog = "cycle"
    /\ cy.pc = "items"
    /\ cy.j > cy.itemsOf[cy.i]
    /\ cy' = [cy EXCEPT !.pc = "loop", !.i = @ + 1]
    /\ UNCHANGED << prog, now, ytVars, pageVars, fp, tx, sm, nt >>

\* the loop over the sources is over: the new entries are returned
ReturnUpdates ==
    /\ prog = "cycle"
    /\ cy.pc = "loop"
    /\ cy.i > MaxSources
    /\ cy' = [cy EXCEPT !.pc = "end"]
    /\ UNCHANGED << prog, now, ytVars, pageVars, fp, tx, sm, nt >>

NextCycle ==
    \/ EnterSource
    \/ NothingToProcess
    \/ SourceRaises
    \/ SelectItems
    \/ ProcessItem
    \/ ItemRaises
    \/ FinishSource
    \/ ReturnUpdates

SpecCycle == InitCycle /\ [][NextCycle]_vars

\* C29: when a cycle ends, every configured source was visited and the
\* processing of every entry selected for a source was begun, whatever failed
\* before it: a failed source, or a failed entry of the same source.
C29_NoFailureAbortsCycle ==
    cy.pc = "end"
    => /\ cy.visited = 1..MaxSources
       /\ \A i \in 1..MaxSources : \A j \in 1..cy.itemsOf[i] : << i, j >> \in cy.handled

\* a source failed, an entry failed, and after both a later entry of the same
\* source and a later source were processed
C29_Witness ==
    /\ cy.pc = "end"
    /\ 1 \in cy.source_failed
    /\ << 2, 1 >> \in cy.item_failed
    /\ << 2, 2 >> \in cy.returned
    /\ << 3, 1 >> \in cy.returned

\* ---------------------------------------------------------------------------
\* DingTalkNotifier.send_message: the message built from the videos a cycle
\* returned.  A text is a sequence of runs << n, w >>: n characters of w
\* bytes each in UTF-8 (1: ASCII, 3: CJK and full-width punctuation, 4: the
\* emoji of the labels).
\* ---------------------------------------------------------------------------

MaxNewVideos == 3    \* the videos a cycle returned

MAX_BYTES == 18000

RECURSIVE Chars(_)
\* len(text)
Chars(text) ==
    IF text = << >> THEN 0 ELSE Head(text)[1] + Chars(Tail(text))

RECURSIVE Bytes(_)
\* len(text.encode('utf-8'))
Bytes(text) ==
    IF text = << >> THEN 0 ELSE Head(text)[1] * Head(text)[2] + Bytes(Tail(text))

RECURSIVE Slice(_, _)
\* text[:limit], limit >= 0: the first `limit` characters
Slice(text, limit) ==
    IF text = << >> \/ limit <= 0
    THEN << >>
    ELSE IF Head(text)[1] <= limit
    THEN << Head(text) >> \o Slice(Tail(text), limit - Head(text)[1])
    ELSE << << limit, Head(text)[2] >> >>

\* "## <emoji> YouTube<5 CJK>\n\n"
Header == << << 13, 1 >>, << 5, 3 >>, << 1, 4 >> >>

\* the title, channel, published_at and link lines of a video with a title of
\* one letter: 95 ASCII characters, 17 CJK characters and one 3-byte emoji,
\* two 4-byte emoji
VideoLines == << << 95, 1 >>, << 18, 3 >>, << 2, 4 >> >>

\* "**<emoji> AI<3 CJK>**\n\n" before the summary and "\n\n" after it
SummaryLabel == << << 9, 1 >>, << 3, 3 >>, << 1, 4 >> >>

Blank == << << 2, 1 >> >>

\* "---\n\n"
Rule == << << 5, 1 >> >>

\* "...\n\n(<7 CJK>)"
Truncated == << << 7, 1 >>, << 7, 3 >> >>

\* video.summary: none, short, or long; in ASCII or in CJK
Summaries ==
    { << >>, << << 100, 1 >> >>, << << 9000, 1 >> >>, << << 17500, 1 >> >>,
      << << 20000, 1 >> >>, << << 7000, 3 >> >> }

\* lines 664-674: video_content
video_content(summary) ==
    VideoLines
    \o (IF summary # << >> THEN SummaryLabel \o summary \o Blank ELSE << >>)
    \o Rule

\* line 680: limit
limit(content) == MAX_BYTES - Bytes(content) - 100

\* line 682: the video's text cut to `limit` characters, and the note
truncate(video_text, content) == Slice(video_text, limit(content)) \o Truncated

InitNotify ==
    /\ prog = "notify"
    /\ config_channels = << >>
    /\ ProgramsAtStart
    /\ fp = Idle
    /\ tx = Idle
    /\ sm = Idle
    /\ cy = Idle
    /\ \E n \in 1..MaxNewVideos : \E videos_ \in [1..n -> Summaries] :
          nt = [pc |-> "loop",
                videos |-> videos_,     \* the summaries of the videos, in order
                k |-> 1,                \* the video the loop is at
                content |-> Header,
                included |-> {},        \* the videos that are in content
                cut |-> {},             \* the videos whose text was cut
                sent |-> << >>]         \* the text handed to send_markdown

\* the loop is at a video
AtVideo ==
    /\ prog = "notify"
    /\ nt.pc = "loop"
    /\ nt.k <= Len(nt.videos)

\* line 676 is false: the video is added (line 692)
AddVideo ==
    /\ AtVideo
    /\ LET video_text == video_content(nt.videos[nt.k])
       IN  /\ Bytes(nt.content \o video_text) <= MAX_BYTES
           /\ nt' = [nt EXCEPT !.content = nt.content \o video_text,
                               !.included = @ \cup { nt.k },
                               !.k = @ + 1]
    /\ UNCHANGED << prog, now, ytVars, pageVars, fp, tx, sm, cy >>

\* lines 678-682: the video alone is over the limit and is cut, then added
TruncateVideo ==
    /\ AtVideo
    /\ LET video_text == video_content(nt.videos[nt.k])
       IN  /\ Bytes(nt.content \o video_text) > MAX_BYTES
           /\ Bytes(video_text) > MAX_BYTES
           /\ limit(nt.content) > 500
           /\ nt' = [nt EXCEPT !.content = nt.content \o truncate(video_text, nt.content),
                               !.included = @ \cup { nt.k },
                               !.cut = @ \cup { nt.k },
                               !.k = @ + 1]
    /\ UNCHANGED << prog, now, ytVars, pageVars, fp, tx, sm, cy >>

\* lines 683-685: no room to cut it to: `continue`
SkipVideo ==
    /\ AtVideo
    /\ LET video_text == video_content(nt.videos[nt.k])
       IN  /\ Bytes(nt.content \o video_text) > MAX_BYTES
           /\ Bytes(video_text) > MAX_BYTES
           /\ limit(nt.content) <= 500
           /\ nt' = [nt EXCEPT !.k = @ + 1]
    /\ UNCHANGED << prog, now, ytVars, pageVars, fp, tx, sm, cy >>

\* lines 686-690: the video does not fit behind the others: `break`
StopAdding ==
    /\ AtVideo
    /\ LET video_text == video_content(nt.videos[nt.k])
       IN  /\ Bytes(nt.content \o video_text) > MAX_BYTES
           /\ Bytes(video_text) <= MAX_BYTES
           /\ nt' = [nt EXCEPT !.pc = "stopped"]
    /\ UNCHANGED << prog, now, ytVars, pageVars, fp, tx, sm, cy >>

\* line 694: send_markdown(title, content, ...)
SendMarkdown ==
    /\ prog = "notify"
    /\ \/ nt.pc = "stopped"
       \/ nt.pc = "loop" /\ nt.k > Len(nt.videos)
    /\ nt' = [nt EXCEPT !.pc = "sent", !.sent = nt.content]
    /\ UNCHANGED << prog, now, ytVars, pageVars, fp, tx, sm, cy >>

NextNotify ==
    \/ AddVideo
    \/ TruncateVideo
    \/ SkipVideo
    \/ StopAdding
    \/ SendMarkdown

SpecNotify == InitNotify /\ [][NextNotify]_vars

\* C40: the text handed to send_markdown has every video of the cycle in it
\* and is at most MAX_BYTES bytes long in UTF-8.
C40_AllIncludedWithinLimit ==
    nt.pc = "sent"
    => /\ nt.included = 1..Len(nt.videos)
       /\ Bytes(nt.sent) <= MAX_BYTES

====
